---- MODULE Spec2Model ----
(***************************************************************************)
(* Model of the routes of claude-history-cloud.                            *)
(*                                                                         *)
(* Federation: the community pattern aggregator (POST /contribute) and its *)
(* k-anonymity gated reads (GET /patterns, GET /patterns/search), over the *)
(* tables community_patterns and pattern_contributions.                    *)
(*                                                                         *)
(* Sync and knowledge: the merges of POST /sync/push/knowledge and         *)
(* /sync/push/sessions, the pull GET /sync/pull/knowledge and the CRUD     *)
(* routes of /api/knowledge, over the tables knowledge_entries and         *)
(* session_summaries.                                                      *)
(*                                                                         *)
(* Teams: POST /api/teams (a transaction on one client),                   *)
(* POST /api/teams/:id/invite and DELETE /api/teams/:id/members/:userId,   *)
(* over the tables teams and team_members.                                 *)
(*                                                                         *)
(* Every SQL statement is one atomic step; a request handler is a sequence *)
(* of such steps (one per awaited query), so concurrent requests           *)
(* interleave between statements.  NOW() is a clock that every statement   *)
(* reading it advances.                                                    *)
(*                                                                         *)
(* Numbers: effectiveness is stored as NUMERIC(3,2); it is modelled in     *)
(* hundredths (0.90 is 90).  sha256 is modelled as collision free: the     *)
(* digest of a string is the string itself.                                *)
(***************************************************************************)
EXTENDS Integers, Sequences, FiniteSets, TLC

\* ------------------------------------------------------------------ bounds

\* Number of contribute requests of the main specification.
MaxRequests == 2
\* Number of contribute requests of the sequential specification.
MaxSeqRequests == 3
\* Number of storage failures a behaviour suffers.
MaxFailures == 1
\* Longest batch of the long-batch specification.
MaxLongBatch == 12
\* Number of concurrent requests of the sync specification.
MaxSyncRequests == 2
\* Number of requests of the sequential sync specification.
MaxSyncSeqRequests == 4
\* Number of requests of the pull specification.
MaxPullRequests == 2
\* Number of concurrent requests of the session specification.
MaxSessionRequests == 3
\* Longest query of the search specification.
MaxQueryLen == 5
\* Longest approach text of the fingerprint specification.
MaxTextLen == 3
\* Number of concurrent requests of the team specification.
MaxTeamRequests == 2
\* Number of requests of the invite specification.
MaxInviteRequests == 51

\* ------------------------------------------------------- program constants

K_ANONYMITY_THRESHOLD == 3
\* errors.slice(0, 10)
ErrorsCap == 10
\* effectiveness: z.number().min(0).max(1), in hundredths
EffMin == 0
EffMax == 100
\* limit = parseInt(req.query.limit) || 20, capped at 100
DefaultLimit == 20
LimitCap == 100
\* entries: z.array(KnowledgeEntrySchema).min(1).max(500)
PushKnowledgeMax == 500
\* summaries: z.array(SessionSummarySchema).min(1).max(200)
PushSessionsMax == 200
\* tierLimits.free.knowledgeEntries
FreeKnowledgeEntries == 500
\* pull/knowledge: LIMIT 500
KnowledgePullLimit == 500
\* pull/sessions: LIMIT 200
SessionPullLimit == 200
\* SearchSchema: q: z.string().min(1).max(500)
SearchQMax == 500
\* tierLimits.free.teamMembers, tierLimits.pro.teamMembers,
\* tierLimits.team.teamMembers
FreeTeamMembers == 0
ProTeamMembers == 0
TeamTeamMembers == 50


\* --------------------------------------------------------------- text

UpperChars == {"A", "B", "C", "D"}
LowerChars == {"a", "b", "c", "d"}
SpaceChars == {" ", "\t"}
PunctChars == {".", "-"}
\* \w of the regular expressions: letters, digits and the underscore
WordChars == UpperChars \cup LowerChars \cup {"7", "_"}

\* String.prototype.toLowerCase on one character
LowerChar(c) ==
    CASE c = "A" -> "a" [] c = "B" -> "b" [] c = "C" -> "c" [] c = "D" -> "d"
      [] OTHER -> c

\* String.prototype.toLowerCase
toLowerCase(s) == [k \in 1..Len(s) |-> LowerChar(s[k])]

\* .replace(/[^\w\s]/g, ' ') on one character
PunctToSpaceChar(c) == IF c \in WordChars \/ c \in SpaceChars THEN c ELSE " "

\* .replace(/\s+/g, ' '): every maximal run of whitespace becomes one space
RECURSIVE CollapseSpaces(_)
CollapseSpaces(s) ==
    IF s = << >> THEN << >>
    ELSE IF Head(s) \in SpaceChars
         THEN IF Len(s) > 1 /\ s[2] \in SpaceChars
              THEN CollapseSpaces(Tail(s))
              ELSE <<" ">> \o CollapseSpaces(Tail(s))
         ELSE <<Head(s)>> \o CollapseSpaces(Tail(s))

RECURSIVE TrimLeft(_)
TrimLeft(s) ==
    IF s # << >> /\ Head(s) \in SpaceChars THEN TrimLeft(Tail(s)) ELSE s

RECURSIVE TrimRight(_)
TrimRight(s) ==
    IF s # << >> /\ s[Len(s)] \in SpaceChars
    THEN TrimRight(SubSeq(s, 1, Len(s) - 1)) ELSE s

\* String.prototype.trim
trim(s) == TrimRight(TrimLeft(s))

\* the normalised approach of dedupHash
NormaliseApproach(approach) ==
    LET lower == toLowerCase(approach)
        spaced == [k \in 1..Len(lower) |-> PunctToSpaceChar(lower[k])]
    IN trim(CollapseSpaces(spaced))

\* dedupHash: sha256 of `${category}:${normalised}`
dedupHash(category, approach) ==
    category \o <<":">> \o NormaliseApproach(approach)


\* ------------------------------------------------------------ the inputs

\* contributorHash values (64 characters each; the length is not modelled)
Hashes == {"A", "B", "C"}

CatCA == <<"C", "A">>
CatDB == <<"D", "B">>

\* Request patterns.  P1 and P2 are the same fix written differently, under
\* different caller ids; P3 is the same text under another category; P4
\* fails PatternSchema (effectiveness 1.5).  An absent platform is << >>.
P1 == [id |-> "id1", type |-> "solution", category |-> CatCA,
       platform |-> <<"d", "d">>, tags |-> {"t1", "t2"},
       approach |-> <<"A", "b", " ", " ", "c", "d", ".">>, effectiveness |-> 90]
P2 == [id |-> "id2", type |-> "solution", category |-> CatCA,
       platform |-> << >>, tags |-> {},
       approach |-> <<"a", "b", " ", "c", "d">>, effectiveness |-> 100]
P3 == [id |-> "id3", type |-> "pattern", category |-> CatDB,
       platform |-> << >>, tags |-> {"t2"},
       approach |-> <<"a", "b", " ", "c", "d">>, effectiveness |-> 0]
P4 == [id |-> "id4", type |-> "solution", category |-> CatCA,
       platform |-> << >>, tags |-> {},
       approach |-> <<"a", "b", " ", "c", "d">>, effectiveness |-> 150]

PatternTypes == {"solution", "error_fix", "decision", "pattern"}

\* PatternSchema (the string lengths are not modelled)
PatternSchemaOk(p) ==
    /\ p.type \in PatternTypes
    /\ Len(p.category) >= 1
    /\ p.effectiveness >= EffMin
    /\ p.effectiveness <= EffMax

\* ContributeSchema: patterns: z.array(PatternSchema).min(1).max(100)
ContributeSchemaOk(body) ==
    /\ Len(body.patterns) >= 1
    /\ Len(body.patterns) <= 100
    /\ \A k \in 1..Len(body.patterns) : PatternSchemaOk(body.patterns[k])

\* ------------------------------------------------------------- the store

VARIABLES
    patterns,       \* table community_patterns: a set of rows
    contributions,  \* table pattern_contributions: a set of rows
    nextId,         \* the next gen_random_uuid()
    req,            \* the contribute requests: position, body, counters
    failures,       \* storage failures so far
    clock,          \* the server's time: the value of the last NOW()
    knowledge,      \* table knowledge_entries: a set of rows
    sessions,       \* table session_summaries: a set of rows
    sreq,           \* the sync and knowledge requests: position, body, counters
    client,         \* a pulling client: its since and the records it has
    teams,          \* table teams: a set of rows
    members,        \* table team_members: a set of rows
    treq,           \* the team requests: position, body
    search          \* a search: its query and the answers of the two routes

vars == <<patterns, contributions, nextId, req, failures, clock,
          knowledge, sessions, sreq, client, teams, members, treq, search>>

\* the variables the team routes write
teamside == <<teams, members, treq>>

\* the variables the sync and knowledge routes write
syncside == <<knowledge, sessions, sreq>>

\* the variables the federation routes leave alone
others == <<knowledge, sessions, sreq, client, teams, members, treq, search>>

\* the variables the sync and knowledge routes leave alone
federation == <<patterns, contributions, req>>

\* NOW(): the time of a statement; time moves on with every statement
\* that reads it
Now == clock + 1

NoRow == [id |-> 0]

\* a route that has not been asked
NotAsked == [status |-> 0]

\* no search
NoSearch == [q |-> << >>, knowledge |-> NotAsked, patterns |-> NotAsked]

\* a client that has not pulled yet: no since, nothing received
NoClient == [since |-> << >>, received |-> {}]

\* SELECT ... FROM community_patterns WHERE hash = $1
SelectByHash(h) == {row \in patterns : row.hash = h}

\* mutant: the hash column without its UNIQUE constraint
HashUniqueDropped(rows, h) == TRUE

\* hash VARCHAR(64) UNIQUE
HashUnique(rows, h) == \A row \in rows : row.hash # h

\* CHECK (effectiveness >= 0 AND effectiveness <= 1)
EffectivenessCheck(e) == e >= 0 /\ e <= 100

\* UNIQUE(pattern_id, contributor_hash)
ContributionConflict(ledger, pid, ch) ==
    \E c \in ledger : c.pattern_id = pid /\ c.contributor_hash = ch

\* INSERT INTO pattern_contributions ... ON CONFLICT ... DO NOTHING
InsertContribution(ledger, pid, ch) ==
    IF ContributionConflict(ledger, pid, ch)
    THEN ledger
    ELSE ledger \cup {[pattern_id |-> pid, contributor_hash |-> ch]}

\* the contributor hashes of a pattern's ledger
LedgerOf(pid) ==
    {c.contributor_hash : c \in {x \in contributions : x.pattern_id = pid}}

\* SELECT COUNT(DISTINCT contributor_hash) ... WHERE pattern_id = $1
CountDistinct(pid) == Cardinality(LedgerOf(pid))

\* (countResult.rows[0]?.cnt || row.contributor_count) + 0
NewCount(cnt, row) == IF cnt # 0 THEN cnt ELSE row.contributor_count

Max(a, b) == IF a >= b THEN a ELSE b
Min(a, b) == IF a <= b THEN a ELSE b

\* Math.max(newCount, row.contributor_count + 1)
StoredCount(newCount, row) == Max(newCount, row.contributor_count + 1)

\* mutant: the incoming effectiveness subtracted instead of added
NewEffectivenessSubtracted(row, e) ==
    <<row.effectiveness * row.contributor_count - e, row.contributor_count + 1>>

\* (row.effectiveness * row.contributor_count + pattern.effectiveness) /
\* (row.contributor_count + 1), as the fraction <<numerator, denominator>>
NewEffectiveness(row, e) ==
    <<row.effectiveness * row.contributor_count + e, row.contributor_count + 1>>

\* Math.min(newEffectiveness, 1)
ClampEffectiveness(q) == IF q[1] > EffMax * q[2] THEN <<EffMax, 1>> ELSE q

\* mutant: the fraction cut to hundredths instead of rounded
NumericTruncate(q) == q[1] \div q[2]

\* NUMERIC(3,2): the fraction rounded to hundredths, half away from zero
NumericRound(q) ==
    IF q[1] >= 0
    THEN (2 * q[1] + q[2]) \div (2 * q[2])
    ELSE 0 - ((2 * (0 - q[1]) + q[2]) \div (2 * q[2]))

\* ---------------------------------------------------- POST /contribute

Idle == [pc |-> "new", contributorHash |-> "", patterns |-> << >>, i |-> 0,
         accepted |-> 0, merged |-> 0, rejected |-> 0, errors |-> << >>,
         row |-> NoRow, newCount |-> 0, status |-> 0]

\* the pattern of the current loop iteration
Current(rq) == rq.patterns[rq.i]

\* the end of one loop iteration: the next pattern, or res.json(...)
Advance(rq) ==
    IF rq.i = Len(rq.patterns)
    THEN [rq EXCEPT !.pc = "done", !.status = 200, !.row = NoRow, !.newCount = 0]
    ELSE [rq EXCEPT !.pc = "select", !.i = @ + 1, !.row = NoRow, !.newCount = 0]

\* mutant: the catch around the loop instead of inside it, so that the
\* first failure ends the batch
RejectAndStop(rq, msg) ==
    [rq EXCEPT !.rejected = @ + 1, !.errors = Append(@, msg),
               !.pc = "done", !.status = 200, !.row = NoRow, !.newCount = 0]

\* catch (err): rejected++; errors.push(err.message)
Reject(rq, msg) ==
    Advance([rq EXCEPT !.rejected = @ + 1, !.errors = Append(@, msg)])

\* { accepted, rejected, merged, errors: errors.slice(0, 10) }
Response(rq) ==
    [status |-> rq.status, accepted |-> rq.accepted, rejected |-> rq.rejected,
     merged |-> rq.merged,
     errors |-> SubSeq(rq.errors, 1, Min(Len(rq.errors), ErrorsCap))]

\* A request arrives with its body: ContributeSchema.parse(req.body).  A
\* body that fails the schema is answered 400 and nothing is processed.
Begin(r, bodies) ==
    /\ req[r].pc = "new"
    /\ IF r = 1 THEN TRUE ELSE req[r - 1].pc # "new"
    /\ \E body \in bodies :
         req' = [req EXCEPT ![r] =
                   IF ContributeSchemaOk(body)
                   THEN [Idle EXCEPT !.pc = "select", !.i = 1,
                                     !.contributorHash = body.contributorHash,
                                     !.patterns = body.patterns]
                   ELSE [Idle EXCEPT !.pc = "done", !.status = 400,
                                     !.contributorHash = body.contributorHash,
                                     !.patterns = body.patterns]]
    /\ UNCHANGED <<patterns, contributions, nextId, failures, clock, others>>

\* SELECT id, contributor_count, effectiveness ... WHERE hash = dedup
SelectExisting(r) ==
    /\ req[r].pc = "select"
    /\ LET p == Current(req[r])
           existing == SelectByHash(dedupHash(p.category, p.approach))
       IN IF existing # {}
          THEN \E row \in existing :
                 req' = [req EXCEPT ![r].pc = "ledger", ![r].row = row]
          ELSE req' = [req EXCEPT ![r].pc = "insert"]
    /\ UNCHANGED <<patterns, contributions, nextId, failures, clock, others>>

\* merge branch: record the contribution
MergeLedger(r) ==
    /\ req[r].pc = "ledger"
    /\ contributions' = InsertContribution(contributions, req[r].row.id,
                                           req[r].contributorHash)
    /\ req' = [req EXCEPT ![r].pc = "count"]
    /\ UNCHANGED <<patterns, nextId, failures, clock, others>>

\* merge branch: the actual unique contributor count
MergeCount(r) ==
    /\ req[r].pc = "count"
    /\ req' = [req EXCEPT ![r].pc = "update",
                          ![r].newCount = NewCount(CountDistinct(req[r].row.id),
                                                   req[r].row)]
    /\ UNCHANGED <<patterns, contributions, nextId, failures, clock, others>>

\* merge branch: UPDATE community_patterns SET contributor_count, effectiveness
MergeUpdate(r) ==
    /\ req[r].pc = "update"
    /\ LET rq == req[r]
           eff == NumericRound(ClampEffectiveness(
                      NewEffectiveness(rq.row, Current(rq).effectiveness)))
           cnt == StoredCount(rq.newCount, rq.row)
       IN IF EffectivenessCheck(eff)
          THEN /\ patterns' =
                    {IF row.id = rq.row.id
                     THEN [row EXCEPT !.contributor_count = cnt,
                                      !.effectiveness = eff,
                                      !.last_seen = Now]
                     ELSE row : row \in patterns}
               /\ clock' = Now
               /\ req' = [req EXCEPT ![r] = Advance([rq EXCEPT !.merged = @ + 1])]
          ELSE /\ UNCHANGED <<patterns, clock>>
               /\ req' = [req EXCEPT ![r] = Reject(rq, "check constraint")]
    /\ UNCHANGED <<contributions, nextId, failures, others>>

\* mutant: last_seen left a tick behind first_seen
NewPatternStale(id, dedup, p, now) ==
    [id |-> id, hash |-> dedup, type |-> p.type,
     category |-> p.category, platform |-> p.platform,
     approach |-> p.approach, tags |-> p.tags,
     effectiveness |-> p.effectiveness, contributor_count |-> 1,
     first_seen |-> now, last_seen |-> now - 1]

\* VALUES ($1, .., $6, 1, NOW(), NOW(), $7): contributor_count 1, first_seen and
\* last_seen the time of the one statement
NewPattern(id, dedup, p, now) ==
    [id |-> id, hash |-> dedup, type |-> p.type,
     category |-> p.category, platform |-> p.platform,
     approach |-> p.approach, tags |-> p.tags,
     effectiveness |-> p.effectiveness, contributor_count |-> 1,
     first_seen |-> now, last_seen |-> now]

\* insert branch: INSERT INTO community_patterns ... RETURNING id
InsertPattern(r) ==
    /\ req[r].pc = "insert"
    /\ LET rq == req[r]
           p == Current(rq)
           dedup == dedupHash(p.category, p.approach)
           new == NewPattern(nextId, dedup, p, Now)
       IN IF ~HashUnique(patterns, dedup)
          THEN /\ UNCHANGED <<patterns, nextId, clock>>
               /\ req' = [req EXCEPT ![r] = Reject(rq, "duplicate key")]
          ELSE IF ~EffectivenessCheck(p.effectiveness)
          THEN /\ UNCHANGED <<patterns, nextId, clock>>
               /\ req' = [req EXCEPT ![r] = Reject(rq, "check constraint")]
          ELSE /\ patterns' = patterns \cup {new}
               /\ nextId' = nextId + 1
               /\ clock' = Now
               /\ req' = [req EXCEPT ![r].pc = "insledger", ![r].row = new]
    /\ UNCHANGED <<contributions, failures, others>>

\* insert branch: record the first contribution
InsertLedger(r) ==
    /\ req[r].pc = "insledger"
    /\ contributions' = InsertContribution(contributions, req[r].row.id,
                                           req[r].contributorHash)
    /\ req' = [req EXCEPT ![r] = Advance([req[r] EXCEPT !.accepted = @ + 1])]
    /\ UNCHANGED <<patterns, nextId, failures, clock, others>>

\* A query of the merge branch's inner try fails: the inner catch swallows
\* the error and the handler goes on to count the ledger.
MergeLedgerFails(r, budget) ==
    /\ req[r].pc = "ledger"
    /\ failures < budget
    /\ failures' = failures + 1
    /\ req' = [req EXCEPT ![r].pc = "count"]
    /\ UNCHANGED <<patterns, contributions, nextId, clock, others>>

\* Any other query fails (connection lost, timeout): the statement changes
\* nothing, the loop's catch counts the pattern as rejected.
QueryFails(r, budget) ==
    /\ req[r].pc \in {"select", "count", "update", "insert", "insledger"}
    /\ failures < budget
    /\ failures' = failures + 1
    /\ req' = [req EXCEPT ![r] = Reject(req[r], "storage failure")]
    /\ UNCHANGED <<patterns, contributions, nextId, clock, others>>


\* ------------------------------------------- GET /patterns, /patterns/search

rowToPattern(row) ==
    [id |-> row.id, type |-> row.type, category |-> row.category,
     platform |-> row.platform, approach |-> row.approach, tags |-> row.tags,
     effectiveness |-> row.effectiveness,
     contributorCount |-> row.contributor_count,
     firstSeen |-> row.first_seen, lastSeen |-> row.last_seen]

\* mutant: the gate with > for >=
GateStrict(row) == row.contributor_count > K_ANONYMITY_THRESHOLD

\* WHERE contributor_count >= $1
Gate(row) == row.contributor_count >= K_ANONYMITY_THRESHOLD

\* AND category = .. AND platform = .. AND tags && ..; an absent filter is
\* << >> for category and platform and {} for tags
Filters(row, category, platform, tags) ==
    /\ category # << >> => row.category = category
    /\ platform # << >> => row.platform = platform
    /\ tags # {} => row.tags \cap tags # {}

\* Math.min(parseInt(req.query.limit) || 20, 100)
LimitOf(limit) == Min(IF limit = 0 THEN DefaultLimit ELSE limit, LimitCap)

\* LIMIT .. OFFSET ..
Page(sorted, limit, offset) ==
    SubSeq(sorted, offset + 1, Min(Len(sorted), offset + limit))

\* ORDER BY effectiveness DESC, contributor_count DESC (rows that tie come
\* in the order of their ids)
ListBefore(a, b) ==
    \/ a.effectiveness > b.effectiveness
    \/ a.effectiveness = b.effectiveness /\ a.contributor_count > b.contributor_count
    \/ a.effectiveness = b.effectiveness /\ a.contributor_count = b.contributor_count
       /\ a.id < b.id

RECURSIVE ListOrder(_)
ListOrder(rows) ==
    IF rows = {} THEN << >>
    ELSE LET first == CHOOSE a \in rows : \A b \in rows \ {a} : ListBefore(a, b)
         IN <<first>> \o ListOrder(rows \ {first})

\* The text of a query up to its WHERE, as its pieces; "\n" is a line break
\* of the template literal.
ListSql == <<"SELECT *", "FROM", "community_patterns", "WHERE">>

SearchSql ==
    <<"\n", "SELECT *", ", ts_rank(..) AS rank", "\n", "FROM",
      "community_patterns", "\n", "WHERE">>

\* the index of the first "SELECT *" of the text, 0 when there is none
FirstSelectStar(sql) ==
    IF \E k \in 1..Len(sql) : sql[k] = "SELECT *"
    THEN CHOOSE k \in 1..Len(sql) :
            /\ sql[k] = "SELECT *"
            /\ \A j \in 1..(k - 1) : sql[j] # "SELECT *"
    ELSE 0

\* sql.replace('SELECT *', 'SELECT COUNT(*)::int AS total')
ReplaceSelectStar(sql) ==
    LET k == FirstSelectStar(sql)
    IN IF k = 0 THEN sql ELSE [sql EXCEPT ![k] = "SELECT COUNT(*)::int AS total"]

\* the ends of the matches of /SELECT \*.*?FROM/ that start at k: a FROM
\* after k with no line break in between (. matches no line break)
FromsAfter(sql, k) ==
    {j \in (k + 1)..Len(sql) :
        /\ sql[j] = "FROM"
        /\ \A m \in (k + 1)..(j - 1) : sql[m] # "\n"}

\* sql.replace(/SELECT \*.*?FROM/, 'SELECT COUNT(*)::int AS total FROM')
ReplaceSelectList(sql) ==
    LET starts == {k \in 1..Len(sql) :
                      sql[k] = "SELECT *" /\ FromsAfter(sql, k) # {}}
    IN IF starts = {} THEN sql
       ELSE LET k == CHOOSE x \in starts : \A y \in starts : x <= y
                j == CHOOSE x \in FromsAfter(sql, k) :
                        \A y \in FromsAfter(sql, k) : x <= y
            IN SubSeq(sql, 1, k - 1)
                  \o <<"SELECT COUNT(*)::int AS total", "FROM">>
                  \o SubSeq(sql, j + 1, Len(sql))

\* countResult.rows[0]?.total || 0: the count of the rows when the query
\* selects the column total; a row of SELECT * has no such column
TotalOf(countSql, rows) ==
    IF \E k \in 1..Len(countSql) : countSql[k] = "SELECT COUNT(*)::int AS total"
    THEN Cardinality(rows)
    ELSE 0

ListRows(category, platform, tags) ==
    {row \in patterns : Gate(row) /\ Filters(row, category, platform, tags)}

\* GET /patterns
ListPatterns(category, platform, tags, limit, offset) ==
    LET rows == ListRows(category, platform, tags)
        page == Page(ListOrder(rows), LimitOf(limit), offset)
    IN [status |-> 200,
        patterns |-> [k \in 1..Len(page) |-> rowToPattern(page[k])],
        total |-> TotalOf(ReplaceSelectStar(ListSql), rows)]

\* split(/\s+/).filter(Boolean)
RECURSIVE SplitSpaces(_, _)
SplitSpaces(s, word) ==
    IF s = << >> THEN (IF word = << >> THEN << >> ELSE <<word>>)
    ELSE IF Head(s) \in SpaceChars
         THEN (IF word = << >> THEN << >> ELSE <<word>>) \o SplitSpaces(Tail(s), << >>)
         ELSE SplitSpaces(Tail(s), Append(word, Head(s)))

\* mutant: the words keep their punctuation
StripNothing(w) == w

\* w.replace(/[^\w]/g, '')
StripNonWord(w) == SelectSeq(w, LAMBDA c : c \in WordChars)

\* the words of the tsquery: trim, split, strip, drop the words of one character
TsQuery(q) ==
    LET words == SplitSpaces(trim(q), << >>)
        stripped == [k \in 1..Len(words) |-> StripNonWord(words[k])]
    IN SelectSeq(stripped, LAMBDA w : Len(w) > 1)

\* to_tsvector: the words of a text, lower-cased (the english stemmer and
\* stop words are left out: the inputs are words they leave alone)
RECURSIVE Lexemes(_, _)
Lexemes(s, word) ==
    IF s = << >> THEN (IF word = << >> THEN {} ELSE {word})
    ELSE IF Head(s) \in WordChars
         THEN Lexemes(Tail(s), Append(word, LowerChar(Head(s))))
         ELSE (IF word = << >> THEN {} ELSE {word}) \cup Lexemes(Tail(s), << >>)

\* search_vector @@ to_tsquery('english', tsQuery): every word of the query
\* is a lexeme of the category, the approach or the platform
Matches(row, tsQuery) ==
    \A k \in 1..Len(tsQuery) :
        toLowerCase(tsQuery[k]) \in
            Lexemes(row.category, << >>) \cup Lexemes(row.approach, << >>)
                \cup Lexemes(row.platform, << >>)

SearchRows(tsQuery, category, platform, tags) ==
    {row \in patterns :
        Matches(row, tsQuery) /\ Gate(row) /\ Filters(row, category, platform, tags)}

\* mutant: no short cut for the empty tsquery, the statement runs with it
BlankNever(tsQuery) == FALSE

\* !tsQuery: the joined words are the empty string
Blank(tsQuery) == tsQuery = << >>

\* GET /patterns/search without LIMIT and OFFSET: the patterns of all its
\* pages, as a set (ts_rank, which orders them, is not modelled)
SearchPatterns(q, category, platform, tags) ==
    IF Len(q) < 2 THEN [status |-> 400, patterns |-> {}, total |-> 0]
    ELSE IF Blank(TsQuery(q)) THEN [status |-> 200, patterns |-> {}, total |-> 0]
    ELSE LET rows == SearchRows(TsQuery(q), category, platform, tags)
         IN [status |-> 200, patterns |-> {rowToPattern(row) : row \in rows},
             total |-> TotalOf(ReplaceSelectList(SearchSql), rows)]

\* ORDER BY rank DESC, effectiveness DESC LIMIT .. OFFSET ..: the pages a
\* search can return, each as a set of patterns.  The order of ts_rank is
\* left open, so a page is any limit of the patterns that remain after the
\* offset.
SearchPages(q, category, platform, tags, limit, offset) ==
    LET all == SearchPatterns(q, category, platform, tags).patterns
        rest == Cardinality(all) - offset
        size == Min(LimitOf(limit), IF rest > 0 THEN rest ELSE 0)
    IN {page \in SUBSET all : Cardinality(page) = size}

\* ------------------------------------------- knowledge and session inputs

Users == {"u1", "u2"}

\* an absent field of a request (undefined in JavaScript)
Undefined == "undefined"

\* NULL of a column
Null == "null"

\* value || null: undefined and the empty string become NULL
OrNull(v) == IF v = Undefined \/ v = "" THEN Null ELSE v

\* the team of the requests (teams and their members are not modelled: the
\* team exists)
Team1 == "team1"

\* Knowledge entries of the requests.  E1 and E2 have the same type, project
\* and summary, E2 with the later timestamp and other details; E3 has E1's
\* key with the project given as the empty string; E4 is another record;
\* E5 fails KnowledgeEntrySchema (empty summary).
E1 == [type |-> "solution", project |-> Undefined, sessionId |-> Undefined,
       timestamp |-> 1, summary |-> "Fix A", details |-> "d1", tags |-> {"t1"},
       relatedFiles |-> {}]
E2 == [type |-> "solution", project |-> Undefined, sessionId |-> "s2",
       timestamp |-> 2, summary |-> "Fix A", details |-> "d2", tags |-> {},
       relatedFiles |-> {"f"}]
E3 == [type |-> "solution", project |-> "", sessionId |-> Undefined,
       timestamp |-> 0, summary |-> "Fix A", details |-> Undefined, tags |-> {},
       relatedFiles |-> {}]
E4 == [type |-> "decision", project |-> "p", sessionId |-> Undefined,
       timestamp |-> 2, summary |-> "Choose B", details |-> Undefined,
       tags |-> {}, relatedFiles |-> {}]
E5 == [type |-> "solution", project |-> Undefined, sessionId |-> Undefined,
       timestamp |-> 1, summary |-> "", details |-> Undefined, tags |-> {},
       relatedFiles |-> {}]

\* KnowledgeEntrySchema (of the string lengths only min(1) is modelled)
KnowledgeEntrySchemaOk(e) == e.type # "" /\ e.summary # ""

\* PushKnowledgeSchema: entries: z.array(KnowledgeEntrySchema).min(1).max(500)
PushKnowledgeSchemaOk(body) ==
    /\ Len(body.entries) >= 1
    /\ Len(body.entries) <= PushKnowledgeMax
    /\ \A k \in 1..Len(body.entries) : KnowledgeEntrySchemaOk(body.entries[k])

\* KnowledgeUpdateSchema: every field optional, summary min(1)
KnowledgeUpdateSchemaOk(u) == u.summary # ""

\* no field to update (an absent array is << >>, a given one <<its elements>>)
NoUpdates == [summary |-> Undefined, details |-> Undefined, tags |-> << >>,
              relatedFiles |-> << >>]

\* mutant: no early return, the UPDATE runs with updated_at = NOW() alone
HasFieldsAlways(u) == TRUE

\* fields.length # 0: some field of the update is given
HasFields(u) ==
    \/ u.summary # Undefined
    \/ u.details # Undefined
    \/ u.tags # << >>
    \/ u.relatedFiles # << >>

\* Session summaries of the requests: S1 and S2 have the same session id
S1 == [sessionId |-> "sess", project |-> Undefined, summary |-> "v1"]
S2 == [sessionId |-> "sess", project |-> "p", summary |-> "v2"]
S3 == [sessionId |-> "", project |-> Undefined, summary |-> "v3"]

\* SessionSummarySchema
SessionSummarySchemaOk(s) == s.sessionId # ""

\* PushSessionsSchema: summaries: z.array(SessionSummarySchema).min(1).max(200)
PushSessionsSchemaOk(body) ==
    /\ Len(body.summaries) >= 1
    /\ Len(body.summaries) <= PushSessionsMax
    /\ \A k \in 1..Len(body.summaries) : SessionSummarySchemaOk(body.summaries[k])

\* ----------------------------------- knowledge_entries, session_summaries

\* the soft key of mergeKnowledgeEntries: user_id = $1 AND type = $2 AND
\* project IS NOT DISTINCT FROM $3 AND summary = $4
SoftKeyMatch(row, userId, entry) ==
    /\ row.user_id = userId
    /\ row.type = entry.type
    /\ row.project = OrNull(entry.project)
    /\ row.summary = entry.summary

\* SELECT id FROM knowledge_entries WHERE <soft key> (before LIMIT 1)
SelectBySoftKey(userId, entry) ==
    {row \in knowledge : SoftKeyMatch(row, userId, entry)}

\* mutant: the incoming timestamp written over the stored one
TimestampOverwritten(stored, incoming) == incoming

\* GREATEST(timestamp, $1)
Greatest(stored, incoming) == Max(stored, incoming)

\* INSERT INTO knowledge_entries (user_id, team_id, type, project, session_id,
\* timestamp, summary, details, tags, related_files); id, created_at and
\* updated_at take their defaults
NewKnowledge(id, userId, teamId, entry, now) ==
    [id |-> id, user_id |-> userId, team_id |-> teamId, type |-> entry.type,
     project |-> OrNull(entry.project), session_id |-> OrNull(entry.sessionId),
     timestamp |-> entry.timestamp, summary |-> entry.summary,
     details |-> OrNull(entry.details), tags |-> entry.tags,
     related_files |-> entry.relatedFiles,
     created_at |-> now, updated_at |-> now]

\* SELECT COUNT(*) FROM knowledge_entries WHERE user_id = $1
CountOfUser(userId) == Cardinality({row \in knowledge : row.user_id = userId})

\* checkKnowledgeLimit: allowed: current < limit (every user is on the free
\* tier)
LimitAllowed(userId) == CountOfUser(userId) < FreeKnowledgeEntries

\* mutant: the UPDATE of a knowledge entry without AND user_id = ..
OwnedByAnyone(row, id, userId) == row.id = id

\* WHERE id = .. AND user_id = ..
OwnedBy(row, id, userId) == row.id = id /\ row.user_id = userId

\* mutant: SET details, tags and related_files of every update, an absent
\* one as NULL or the empty array
ApplyUpdatesToAll(row, u, now) ==
    [row EXCEPT !.summary = IF u.summary # Undefined THEN u.summary ELSE @,
                !.details = OrNull(u.details),
                !.tags = IF u.tags # << >> THEN u.tags[1] ELSE {},
                !.related_files =
                    IF u.relatedFiles # << >> THEN u.relatedFiles[1] ELSE {},
                !.updated_at = now]

\* UPDATE knowledge_entries SET <the given fields>, updated_at = NOW()
ApplyUpdates(row, u, now) ==
    [row EXCEPT !.summary = IF u.summary # Undefined THEN u.summary ELSE @,
                !.details = IF u.details # Undefined THEN u.details ELSE @,
                !.tags = IF u.tags # << >> THEN u.tags[1] ELSE @,
                !.related_files =
                    IF u.relatedFiles # << >> THEN u.relatedFiles[1] ELSE @,
                !.updated_at = now]

\* mutant: session_summaries without UNIQUE(user_id, session_id)
SessionConflictNone(rows, userId, sessionId) == {}

\* UNIQUE(user_id, session_id) of session_summaries
SessionConflict(rows, userId, sessionId) ==
    {row \in rows : row.user_id = userId /\ row.session_id = sessionId}

\* mutant: ON CONFLICT (user_id, session_id) DO NOTHING
UpsertSessionKeepsFirst(rows, id, userId, teamId, s, now) ==
    IF \E row \in rows : row.user_id = userId /\ row.session_id = s.sessionId
    THEN rows
    ELSE rows \cup {[id |-> id, user_id |-> userId, team_id |-> teamId,
                     session_id |-> s.sessionId,
                     project |-> IF s.project = Undefined THEN Null ELSE s.project,
                     summary |-> s.summary, created_at |-> now]}

\* INSERT INTO session_summaries .. ON CONFLICT (user_id, session_id) DO
\* UPDATE SET summary = $5, project = $4
UpsertSession(rows, id, userId, teamId, s, now) ==
    IF SessionConflict(rows, userId, s.sessionId) # {}
    THEN {IF row \in SessionConflict(rows, userId, s.sessionId)
          THEN [row EXCEPT !.summary = s.summary, !.project = OrNull(s.project)]
          ELSE row : row \in rows}
    ELSE rows \cup {[id |-> id, user_id |-> userId, team_id |-> teamId,
                     session_id |-> s.sessionId, project |-> OrNull(s.project),
                     summary |-> s.summary, created_at |-> now]}

\* ------------------ the sync routes and the knowledge and session routes

SIdle == [kind |-> "", pc |-> "new", user |-> "", teamId |-> Null,
          entries |-> << >>, summaries |-> << >>, i |-> 0,
          inserted |-> 0, skipped |-> 0, updated |-> 0, existing |-> 0,
          id |-> 0, updates |-> NoUpdates, status |-> 0]

\* the entry of the current iteration of mergeKnowledgeEntries
CurrentEntry(rq) == rq.entries[rq.i]

\* mutant: the loop left after its first entry
NextEntryStops(rq) == [rq EXCEPT !.pc = "log", !.existing = 0]

\* the end of one iteration of mergeKnowledgeEntries: the next entry, or
\* return { inserted, skipped } and on to logSyncAction
NextEntry(rq) ==
    IF rq.i = Len(rq.entries)
    THEN [rq EXCEPT !.pc = "log", !.existing = 0]
    ELSE [rq EXCEPT !.pc = "kselect", !.i = @ + 1, !.existing = 0]

\* the end of one iteration of mergeSessionSummaries
NextSummary(rq) ==
    IF rq.i = Len(rq.summaries)
    THEN [rq EXCEPT !.pc = "log"]
    ELSE [rq EXCEPT !.i = @ + 1]

\* the catch of a route: res.status(500), whatever has been written stays
\* (no statement of these routes runs in a transaction)
InternalError(rq) == [rq EXCEPT !.pc = "done", !.status = 500, !.existing = 0]

\* res.json of the push routes: { accepted, skipped | updated, errors: [] }
PushResponse(rq) ==
    IF rq.status # 200 THEN [status |-> rq.status]
    ELSE IF rq.kind = "pushKnowledge"
    THEN [status |-> 200, accepted |-> rq.inserted, skipped |-> rq.skipped,
          errors |-> << >>]
    ELSE [status |-> 200, accepted |-> rq.inserted, updated |-> rq.updated,
          errors |-> << >>]

\* A request arrives: the body is parsed with the schema of its route.
SBegin(r, bodies) ==
    /\ sreq[r].pc = "new"
    /\ IF r = 1 THEN TRUE ELSE sreq[r - 1].pc # "new"
    /\ \E body \in bodies :
         LET rq == [SIdle EXCEPT !.kind = body.kind, !.user = body.user,
                                 !.teamId = OrNull(body.teamId),
                                 !.entries = body.entries,
                                 !.summaries = body.summaries,
                                 !.id = body.id, !.updates = body.updates]
             bad == [rq EXCEPT !.pc = "done", !.status = 400]
         IN sreq' = [sreq EXCEPT ![r] =
               CASE body.kind = "pushKnowledge" ->
                      IF PushKnowledgeSchemaOk(body)
                      THEN [rq EXCEPT !.pc = "limit"] ELSE bad
                 [] body.kind = "create" ->
                      IF KnowledgeEntrySchemaOk(body.entries[1])
                      THEN [rq EXCEPT !.pc = "limit"] ELSE bad
                 [] body.kind = "update" ->
                      IF ~KnowledgeUpdateSchemaOk(body.updates) THEN bad
                      ELSE IF ~HasFields(body.updates)
                      THEN [rq EXCEPT !.pc = "done", !.status = 404]
                      ELSE [rq EXCEPT !.pc = "kpatch"]
                 [] body.kind = "delete" -> [rq EXCEPT !.pc = "kdelete"]
                 [] body.kind = "pushSessions" ->
                      IF PushSessionsSchemaOk(body)
                      THEN [rq EXCEPT !.pc = "supsert", !.i = 1] ELSE bad
                 [] body.kind = "postSession" ->
                      IF SessionSummarySchemaOk(body.summaries[1])
                      THEN [rq EXCEPT !.pc = "sinsert", !.i = 1] ELSE bad]
    /\ UNCHANGED <<federation, teamside, client, search, nextId, failures, clock, knowledge, sessions>>

\* checkKnowledgeLimit, once per request: 429 when the user's count has
\* reached the limit of the tier.  (Its first query reads the tier from the
\* users table, which is not modelled; the step is the COUNT.)
CheckLimit(r) ==
    /\ sreq[r].pc = "limit"
    /\ sreq' = [sreq EXCEPT ![r] =
          IF ~LimitAllowed(sreq[r].user)
          THEN [sreq[r] EXCEPT !.pc = "done", !.status = 429]
          ELSE IF sreq[r].kind = "create"
          THEN [sreq[r] EXCEPT !.pc = "kcreate"]
          ELSE [sreq[r] EXCEPT !.pc = "kselect", !.i = 1]]
    /\ UNCHANGED <<federation, teamside, client, search, nextId, failures, clock, knowledge, sessions>>

\* mergeKnowledgeEntries: SELECT id .. WHERE <soft key> LIMIT 1 (any of the
\* rows that match, there is no ORDER BY)
SelectExistingEntry(r) ==
    /\ sreq[r].pc = "kselect"
    /\ LET found == SelectBySoftKey(sreq[r].user, CurrentEntry(sreq[r]))
       IN IF found # {}
          THEN \E row \in found :
                 sreq' = [sreq EXCEPT ![r].pc = "kupdate", ![r].existing = row.id]
          ELSE sreq' = [sreq EXCEPT ![r].pc = "kinsert"]
    /\ UNCHANGED <<federation, teamside, client, search, nextId, failures, clock, knowledge, sessions>>

\* mutant: the merge writes the incoming details, tags, related files,
\* session id and team id over the stored ones
UpdateWholeEntry(r) ==
    /\ sreq[r].pc = "kupdate"
    /\ knowledge' =
          {IF row.id = sreq[r].existing
           THEN [NewKnowledge(row.id, row.user_id, OrNull(sreq[r].teamId),
                              CurrentEntry(sreq[r]), Now)
                    EXCEPT !.timestamp = Greatest(row.timestamp, @),
                           !.created_at = row.created_at]
           ELSE row : row \in knowledge}
    /\ clock' = Now
    /\ sreq' = [sreq EXCEPT ![r] = NextEntry([sreq[r] EXCEPT !.skipped = @ + 1])]
    /\ UNCHANGED <<federation, teamside, client, search, nextId, failures, sessions>>

\* mergeKnowledgeEntries: UPDATE .. SET timestamp = GREATEST(timestamp, $1),
\* updated_at = NOW() WHERE id = $2; skipped++
UpdateTimestamp(r) ==
    /\ sreq[r].pc = "kupdate"
    /\ knowledge' =
          {IF row.id = sreq[r].existing
           THEN [row EXCEPT !.timestamp = Greatest(@, CurrentEntry(sreq[r]).timestamp),
                            !.updated_at = Now]
           ELSE row : row \in knowledge}
    /\ clock' = Now
    /\ sreq' = [sreq EXCEPT ![r] = NextEntry([sreq[r] EXCEPT !.skipped = @ + 1])]
    /\ UNCHANGED <<federation, teamside, client, search, nextId, failures, sessions>>

\* mergeKnowledgeEntries: INSERT INTO knowledge_entries; inserted++
InsertEntry(r) ==
    /\ sreq[r].pc = "kinsert"
    /\ knowledge' = knowledge \cup
          {NewKnowledge(nextId, sreq[r].user, sreq[r].teamId,
                        CurrentEntry(sreq[r]), Now)}
    /\ nextId' = nextId + 1
    /\ clock' = Now
    /\ sreq' = [sreq EXCEPT ![r] = NextEntry([sreq[r] EXCEPT !.inserted = @ + 1])]
    /\ UNCHANGED <<federation, teamside, client, search, failures, sessions>>

\* POST /api/sessions: the upsert of the one summary of the body, 201
InsertSession(r) ==
    /\ sreq[r].pc = "sinsert"
    /\ LET rq == sreq[r]
           s == rq.summaries[1]
           isNew == SessionConflict(sessions, rq.user, s.sessionId) = {}
       IN /\ sessions' = UpsertSession(sessions, nextId, rq.user, rq.teamId, s, Now)
          /\ nextId' = IF isNew THEN nextId + 1 ELSE nextId
          /\ sreq' = [sreq EXCEPT ![r].pc = "done", ![r].status = 201]
    /\ clock' = Now
    /\ UNCHANGED <<federation, teamside, client, search, failures, knowledge>>

\* mergeSessionSummaries: one upsert per summary; inserted++ or updated++
UpsertSummary(r) ==
    /\ sreq[r].pc = "supsert"
    /\ LET rq == sreq[r]
           s == rq.summaries[rq.i]
           isNew == SessionConflict(sessions, rq.user, s.sessionId) = {}
       IN /\ sessions' = UpsertSession(sessions, nextId, rq.user, rq.teamId, s, Now)
          /\ nextId' = IF isNew THEN nextId + 1 ELSE nextId
          /\ sreq' = [sreq EXCEPT ![r] =
                NextSummary(IF isNew THEN [rq EXCEPT !.inserted = @ + 1]
                                     ELSE [rq EXCEPT !.updated = @ + 1])]
    /\ clock' = Now
    /\ UNCHANGED <<federation, teamside, client, search, failures, knowledge>>

\* logSyncAction (the table sync_log is not modelled), then res.json
LogSync(r) ==
    /\ sreq[r].pc = "log"
    /\ sreq' = [sreq EXCEPT ![r].pc = "done", ![r].status = 200]
    /\ UNCHANGED <<federation, teamside, client, search, nextId, failures, clock, knowledge, sessions>>

\* POST /api/knowledge: createKnowledgeEntry, 201 { id }
CreateEntry(r) ==
    /\ sreq[r].pc = "kcreate"
    /\ knowledge' = knowledge \cup
          {NewKnowledge(nextId, sreq[r].user, sreq[r].teamId,
                        sreq[r].entries[1], Now)}
    /\ nextId' = nextId + 1
    /\ clock' = Now
    /\ sreq' = [sreq EXCEPT ![r].pc = "done", ![r].status = 201, ![r].id = nextId]
    /\ UNCHANGED <<federation, teamside, client, search, failures, sessions>>

\* PATCH /api/knowledge/:id: updateKnowledgeEntry, 200 when a row was
\* updated, 404 otherwise
PatchEntry(r) ==
    /\ sreq[r].pc = "kpatch"
    /\ LET rq == sreq[r]
           hit == {row \in knowledge : OwnedBy(row, rq.id, rq.user)}
       IN /\ knowledge' = {IF row \in hit THEN ApplyUpdates(row, rq.updates, Now)
                           ELSE row : row \in knowledge}
          /\ clock' = IF hit # {} THEN Now ELSE clock
          /\ sreq' = [sreq EXCEPT ![r].pc = "done",
                                  ![r].status = IF hit # {} THEN 200 ELSE 404]
    /\ UNCHANGED <<federation, teamside, client, search, nextId, failures, sessions>>

\* DELETE /api/knowledge/:id: deleteKnowledgeEntry, 200 when a row was
\* deleted, 404 otherwise
DeleteEntry(r) ==
    /\ sreq[r].pc = "kdelete"
    /\ LET rq == sreq[r]
           hit == {row \in knowledge : OwnedBy(row, rq.id, rq.user)}
       IN /\ knowledge' = knowledge \ hit
          /\ sreq' = [sreq EXCEPT ![r].pc = "done",
                                  ![r].status = IF hit # {} THEN 200 ELSE 404]
    /\ UNCHANGED <<federation, teamside, client, search, nextId, failures, clock, sessions>>

\* mutant: the batch in a transaction that the failure rolls back, taking
\* the records of the earlier entries with it
RolledBack(rows, rq) ==
    {row \in rows :
        \A k \in 1..Len(rq.entries) :
            k <= rq.inserted + rq.skipped => ~SoftKeyMatch(row, rq.user, rq.entries[k])}

\* the table after a request has failed: every query() is a statement of its
\* own on the pool, there is no BEGIN and no ROLLBACK, what the earlier
\* statements wrote stays
Committed(rows, rq) == rows

\* A query of one of these routes fails (connection lost, timeout): the
\* statement changes nothing, the error leaves mergeKnowledgeEntries or
\* mergeSessionSummaries, which catch nothing, and the route answers 500.
SyncQueryFails(r, budget) ==
    /\ sreq[r].pc \in {"limit", "kselect", "kupdate", "kinsert", "supsert",
                       "log", "kcreate", "kpatch", "kdelete"}
    /\ failures < budget
    /\ failures' = failures + 1
    /\ sreq' = [sreq EXCEPT ![r] = InternalError(sreq[r])]
    /\ knowledge' = Committed(knowledge, sreq[r])
    /\ UNCHANGED <<federation, teamside, client, search, nextId, clock, sessions>>

\* listKnowledgeEntries: the rows of the caller, and of the team when a team
\* id is given
Visible(row, userId, teamId) ==
    IF teamId # Null
    THEN row.user_id = userId \/ row.team_id = teamId
    ELSE row.user_id = userId

\* if (opts.project) / if (opts.type): an absent or empty filter is skipped
KnowledgeFilters(row, project, type) ==
    /\ (project # Undefined /\ project # "") => row.project = project
    /\ (type # Undefined /\ type # "") => row.type = type

\* ORDER BY timestamp DESC (rows that tie come in the order of their ids)
KnowledgeBefore(a, b) ==
    \/ a.timestamp > b.timestamp
    \/ a.timestamp = b.timestamp /\ a.id < b.id

\* the rows in an order: the k-th is the one with k - 1 rows before it
KnowledgeOrder(rows) ==
    LET before == [row \in rows |->
                      Cardinality({o \in rows : KnowledgeBefore(o, row)})]
    IN [k \in 1..Cardinality(rows) |-> CHOOSE row \in rows : before[row] = k - 1]

\* listKnowledgeEntries (GET /api/knowledge)
ListKnowledgeEntries(userId, teamId, project, type, limit, offset) ==
    LET rows == {row \in knowledge : /\ Visible(row, userId, teamId)
                                     /\ KnowledgeFilters(row, project, type)}
    IN [entries |-> Page(KnowledgeOrder(rows), limit, offset),
        total |-> Cardinality(rows)]

\* getKnowledgeEntry (GET /api/knowledge/:id): the row, or 404
GetKnowledgeEntry(id, userId) ==
    LET hit == {row \in knowledge : OwnedBy(row, id, userId)}
    IN IF hit = {} THEN [status |-> 404]
       ELSE [status |-> 200, entry |-> CHOOSE row \in hit : TRUE]

\* SearchSchema: q: z.string().min(1).max(500)
SearchSchemaOk(q) == Len(q) >= 1 /\ Len(q) <= SearchQMax

\* searchKnowledge: the words of its tsquery: trim, split, strip, drop the
\* words of one character (joined with ' & ')
KnowledgeTsQuery(q) ==
    LET words == SplitSpaces(trim(q), << >>)
        stripped == [k \in 1..Len(words) |-> StripNonWord(words[k])]
    IN SelectSeq(stripped, LAMBDA w : Len(w) > 1)

\* the characters of the text of a record that a search of the model can
\* match; no other text of the model has a word of the queries' letters
TextChars(text) ==
    IF text = "aa cd" THEN <<"a", "a", " ", "c", "d">> ELSE << >>

\* (to_tsvector(summary) || to_tsvector(details)) @@ to_tsquery(..): every
\* word of the query is a lexeme of the summary or of the details
KnowledgeMatches(row, tsQuery) ==
    \A k \in 1..Len(tsQuery) :
        toLowerCase(tsQuery[k]) \in
            Lexemes(TextChars(row.summary), << >>)
                \cup Lexemes(TextChars(row.details), << >>)

\* searchKnowledge without LIMIT and OFFSET: the entries of all its pages,
\* as a set (ts_rank, which orders them, is not modelled)
SearchKnowledge(userId, teamId, q, project, type) ==
    IF Blank(KnowledgeTsQuery(q)) THEN [entries |-> {}, total |-> 0]
    ELSE LET rows == {row \in knowledge :
                         /\ Visible(row, userId, teamId)
                         /\ KnowledgeMatches(row, KnowledgeTsQuery(q))
                         /\ KnowledgeFilters(row, project, type)}
         IN [entries |-> rows, total |-> Cardinality(rows)]

\* GET /api/knowledge/search: SearchSchema.parse, then searchKnowledge
KnowledgeSearchRoute(userId, teamId, q, project, type) ==
    IF ~SearchSchemaOk(q) THEN [status |-> 400, entries |-> {}, total |-> 0]
    ELSE LET res == SearchKnowledge(userId, OrNull(teamId), q, project, type)
         IN [status |-> 200, entries |-> res.entries, total |-> res.total]

\* a time filter that also lets through the records updated at since
SinceInclusive(row, since) ==
    (since # << >> /\ since[1] # 0) => row.updated_at >= since[1]

\* if (since): an absent since (<< >>) and the since 0 select no time
\* filter; otherwise updated_at > to_timestamp(since / 1000) (the times of
\* the model are in milliseconds); a given since n is <<n>>
Since(row, since) ==
    (since # << >> /\ since[1] # 0) => row.updated_at > since[1]

\* the rows of one updated_at, in the order of their ids
TieOrder(rows) ==
    [k \in 1..Cardinality(rows) |->
        CHOOSE row \in rows : Cardinality({o \in rows : o.id < row.id}) = k - 1]

\* the rows with lo <= updated_at <= hi, latest first: those of the later
\* half of the interval, then those of the earlier half
RECURSIVE NewestFirst(_, _, _)
NewestFirst(rows, lo, hi) ==
    IF rows = {} THEN << >>
    ELSE IF lo >= hi THEN TieOrder(rows)
    ELSE LET mid == (lo + hi) \div 2
         IN NewestFirst({row \in rows : row.updated_at > mid}, mid + 1, hi)
               \o NewestFirst({row \in rows : row.updated_at <= mid}, lo, mid)

\* ORDER BY updated_at DESC (rows that tie come in the order of their ids)
PullOrder(rows) == NewestFirst(rows, 0, clock)

\* GET /api/sync/pull/knowledge: .. WHERE <visible> [AND updated_at > ..]
\* ORDER BY updated_at DESC LIMIT 500
PullKnowledge(userId, teamId, since) ==
    LET rows == {row \in knowledge : Visible(row, userId, OrNull(teamId))
                                        /\ Since(row, since)}
        sorted == PullOrder(rows)
    IN [status |-> 200,
        entries |-> SubSeq(sorted, 1, Min(Len(sorted), KnowledgePullLimit))]

\* mutant: the session pull filters on nothing
SinceCreatedIgnored(row, since) == TRUE

\* if (since): .. AND created_at > to_timestamp(since / 1000)
SinceCreated(row, since) ==
    (since # << >> /\ since[1] # 0) => row.created_at > since[1]

\* ORDER BY created_at DESC (rows that tie come in the order of their ids)
SessionOrder(rows) ==
    [k \in 1..Cardinality(rows) |->
        CHOOSE row \in rows :
            Cardinality({o \in rows : \/ o.created_at > row.created_at
                                      \/ /\ o.created_at = row.created_at
                                         /\ o.id < row.id}) = k - 1]

\* GET /api/sync/pull/sessions over the rows of session_summaries: .. WHERE
\* <visible> [AND created_at > ..] ORDER BY created_at DESC LIMIT 200
PullSessionsOf(rows, userId, teamId, since) ==
    LET hit == {row \in rows : Visible(row, userId, OrNull(teamId))
                                  /\ SinceCreated(row, since)}
        sorted == SessionOrder(hit)
    IN [status |-> 200,
        summaries |-> SubSeq(sorted, 1, Min(Len(sorted), SessionPullLimit))]

PullSessions(userId, teamId, since) ==
    PullSessionsOf(sessions, userId, teamId, since)

\* ---------------------------------------------------- teams, team_members

\* the users table: id, email, tier.  A user is named by its id, its email
\* is its id; tier is 'free' by default and 'team' for the subscriber u1.
UserId(k) == "u" \o ToString(k)

Registered(n) == {UserId(k) : k \in 1..n}

TierOf(userId) == IF userId = "u1" THEN "team" ELSE "free"

\* config.tierLimits[tier]?.teamMembers || 0
TeamMemberLimit(tier) ==
    CASE tier = "free" -> FreeTeamMembers
      [] tier = "pro" -> ProTeamMembers
      [] tier = "team" -> TeamTeamMembers
      [] OTHER -> 0

\* a team request before it is received; team and owner hold the rows its
\* transaction has written and not yet committed
TIdle ==
    [kind |-> "", pc |-> "new", status |-> 0, user |-> "", name |-> "",
     teamId |-> 0, email |-> "", team |-> {}, owner |-> {}, ownerId |-> "",
     tier |-> "", invited |-> "", target |-> ""]

CreateTeam(user, name) == [kind |-> "createTeam", user |-> user, name |-> name]

Invite(user, teamId, email) ==
    [kind |-> "invite", user |-> user, teamId |-> teamId, email |-> email]

\* DELETE /api/teams/:id/members/:userId
RemoveMember(user, teamId, target) ==
    [kind |-> "remove", user |-> user, teamId |-> teamId, target |-> target]

\* CreateTeamSchema: name: z.string().min(1).max(255)
CreateTeamSchemaOk(body) == body.name # ""

\* InviteSchema: email: z.string().email()
InviteSchemaOk(body) == body.email # ""

\* The handler parses the body: a ZodError answers 400; a create-team takes a
\* client of the pool, an invite goes to its first query; a remove-member
\* has no body and goes to its first query.
TBegin(r, bodies) ==
    /\ treq[r].pc = "new"
    /\ \E body \in bodies :
          treq' = [treq EXCEPT ![r] =
                      IF body.kind = "createTeam"
                      THEN IF CreateTeamSchemaOk(body)
                           THEN [@ EXCEPT !.kind = body.kind, !.user = body.user,
                                          !.name = body.name, !.pc = "tbegin"]
                           ELSE [@ EXCEPT !.kind = body.kind, !.user = body.user,
                                          !.pc = "done", !.status = 400]
                      ELSE IF body.kind = "remove"
                      THEN [@ EXCEPT !.kind = body.kind, !.user = body.user,
                                     !.teamId = body.teamId,
                                     !.target = body.target, !.pc = "rmember"]
                      ELSE IF InviteSchemaOk(body)
                           THEN [@ EXCEPT !.kind = body.kind, !.user = body.user,
                                          !.teamId = body.teamId,
                                          !.email = body.email, !.pc = "imember"]
                           ELSE [@ EXCEPT !.kind = body.kind, !.user = body.user,
                                          !.pc = "done", !.status = 400]]
    /\ UNCHANGED <<federation, syncside, client, search, teams, members,
                   nextId, failures, clock>>

\* client.query('BEGIN')
TxBegin(r) ==
    /\ treq[r].pc = "tbegin"
    /\ treq' = [treq EXCEPT ![r].pc = "tteam"]
    /\ UNCHANGED <<federation, syncside, client, search, teams, members,
                   nextId, failures, clock>>

\* INSERT INTO teams (name, owner_id) VALUES ($1, $2) RETURNING id, name,
\* created_at: inside the transaction, the row is the client's alone
InsertTeam(r) ==
    /\ treq[r].pc = "tteam"
    /\ treq' = [treq EXCEPT ![r].pc = "towner", ![r].teamId = nextId,
                            ![r].team = {[id |-> nextId, name |-> treq[r].name,
                                          owner_id |-> treq[r].user]}]
    /\ nextId' = nextId + 1
    /\ UNCHANGED <<federation, syncside, client, search, teams, members,
                   failures, clock>>

\* INSERT INTO team_members (team_id, user_id, role) VALUES ($1, $2, 'owner')
InsertOwner(r) ==
    /\ treq[r].pc = "towner"
    /\ treq' = [treq EXCEPT ![r].pc = "tcommit",
                            ![r].owner = {[team_id |-> treq[r].teamId,
                                           user_id |-> treq[r].user,
                                           role |-> "owner"]}]
    /\ UNCHANGED <<federation, syncside, client, search, teams, members,
                   nextId, failures, clock>>

\* client.query('COMMIT'); res.status(201).json(team)
CommitTeam(r) ==
    /\ treq[r].pc = "tcommit"
    /\ teams' = teams \cup treq[r].team
    /\ members' = members \cup treq[r].owner
    /\ treq' = [treq EXCEPT ![r].pc = "done", ![r].status = 201]
    /\ UNCHANGED <<federation, syncside, client, search, nextId, failures, clock>>

\* mutant: the statements on the pool, each committed as it runs, so that
\* what the request has written stays after the failure
Autocommitted(rows, written) == rows \cup written

\* catch: client.query('ROLLBACK'): what the transaction has written is
\* discarded
RolledBackTo(rows, written) == rows

\* A statement of the create-team transaction fails: the catch rolls back and
\* rethrows, the route answers 500.  A COMMIT whose answer is lost may have
\* been applied by the server or not.
TeamQueryFails(r, budget) ==
    /\ treq[r].pc \in {"tbegin", "tteam", "towner", "tcommit"}
    /\ failures < budget
    /\ failures' = failures + 1
    /\ \E applied \in {a \in BOOLEAN : a => treq[r].pc = "tcommit"} :
          /\ teams' = IF applied THEN teams \cup treq[r].team
                      ELSE RolledBackTo(teams, treq[r].team)
          /\ members' = IF applied THEN members \cup treq[r].owner
                        ELSE RolledBackTo(members, treq[r].owner)
    /\ treq' = [treq EXCEPT ![r].pc = "done", ![r].status = 500]
    /\ UNCHANGED <<federation, syncside, client, search, nextId, clock>>

\* SELECT role FROM team_members WHERE team_id = $1 AND user_id = $2
\* 403 unless the requester has a row and its role is 'owner'
SelectMembership(r) ==
    /\ treq[r].pc = "imember"
    /\ LET rows == {m \in members : m.team_id = treq[r].teamId
                                       /\ m.user_id = treq[r].user}
       IN treq' = [treq EXCEPT ![r] =
                      IF rows = {} \/ \E m \in rows : m.role # "owner"
                      THEN [@ EXCEPT !.pc = "done", !.status = 403]
                      ELSE [@ EXCEPT !.pc = "iteam"]]
    /\ UNCHANGED <<federation, syncside, client, search, teams, members,
                   nextId, failures, clock>>

\* SELECT owner_id FROM teams WHERE id = $1; team.rows[0].owner_id throws
\* when the team is gone
SelectTeamOwner(r) ==
    /\ treq[r].pc = "iteam"
    /\ LET rows == {t \in teams : t.id = treq[r].teamId}
       IN treq' = [treq EXCEPT ![r] =
                      IF rows = {}
                      THEN [@ EXCEPT !.pc = "done", !.status = 500]
                      ELSE [@ EXCEPT !.pc = "itier",
                                     !.ownerId = (CHOOSE t \in rows : TRUE).owner_id]]
    /\ UNCHANGED <<federation, syncside, client, search, teams, members,
                   nextId, failures, clock>>

\* checkTeamMemberLimit: SELECT tier FROM users WHERE id = $1
SelectOwnerTier(r) ==
    /\ treq[r].pc = "itier"
    /\ treq' = [treq EXCEPT ![r].pc = "icount", ![r].tier = TierOf(treq[r].ownerId)]
    /\ UNCHANGED <<federation, syncside, client, search, teams, members,
                   nextId, failures, clock>>

\* mutant: no limit on the members of a team
AllowedAlways(current, limit) == TRUE

\* allowed: current < limit
Allowed(current, limit) == current < limit

\* checkTeamMemberLimit: SELECT COUNT(*)::int AS cnt FROM team_members WHERE
\* team_id = $1; 429 unless allowed
CountMembers(r) ==
    /\ treq[r].pc = "icount"
    /\ LET current == Cardinality({m \in members : m.team_id = treq[r].teamId})
       IN treq' = [treq EXCEPT ![r] =
                      IF Allowed(current, TeamMemberLimit(treq[r].tier))
                      THEN [@ EXCEPT !.pc = "iuser"]
                      ELSE [@ EXCEPT !.pc = "done", !.status = 429]]
    /\ UNCHANGED <<federation, syncside, client, search, teams, members,
                   nextId, failures, clock>>

\* SELECT id FROM users WHERE email = $1; 404 when there is none
SelectInvited(r, users) ==
    /\ treq[r].pc = "iuser"
    /\ treq' = [treq EXCEPT ![r] =
                   IF treq[r].email \notin users
                   THEN [@ EXCEPT !.pc = "done", !.status = 404]
                   ELSE [@ EXCEPT !.pc = "iexisting", !.invited = treq[r].email]]
    /\ UNCHANGED <<federation, syncside, client, search, teams, members,
                   nextId, failures, clock>>

\* SELECT 1 FROM team_members WHERE team_id = $1 AND user_id = $2; 409 when
\* there is a row
SelectAlreadyMember(r) ==
    /\ treq[r].pc = "iexisting"
    /\ treq' = [treq EXCEPT ![r] =
                   IF \E m \in members : m.team_id = treq[r].teamId
                                            /\ m.user_id = treq[r].invited
                   THEN [@ EXCEPT !.pc = "done", !.status = 409]
                   ELSE [@ EXCEPT !.pc = "iinsert"]]
    /\ UNCHANGED <<federation, syncside, client, search, teams, members,
                   nextId, failures, clock>>

\* INSERT INTO team_members (team_id, user_id, role) VALUES ($1, $2,
\* 'member'); PRIMARY KEY (team_id, user_id): a second row of the pair is a
\* unique violation, the catch answers 500
InsertMember(r) ==
    /\ treq[r].pc = "iinsert"
    /\ IF \E m \in members : m.team_id = treq[r].teamId
                                /\ m.user_id = treq[r].invited
       THEN /\ treq' = [treq EXCEPT ![r].pc = "done", ![r].status = 500]
            /\ UNCHANGED members
       ELSE /\ members' = members \cup {[team_id |-> treq[r].teamId,
                                         user_id |-> treq[r].invited,
                                         role |-> "member"]}
            /\ treq' = [treq EXCEPT ![r].pc = "done", ![r].status = 201]
    /\ UNCHANGED <<federation, syncside, client, search, teams, nextId,
                   failures, clock>>

\* A query of the invite route fails: nothing is written, the catch answers
\* 500.
InviteQueryFails(r, budget) ==
    /\ treq[r].pc \in {"imember", "iteam", "itier", "icount", "iuser",
                       "iexisting", "iinsert"}
    /\ failures < budget
    /\ failures' = failures + 1
    /\ treq' = [treq EXCEPT ![r].pc = "done", ![r].status = 500]
    /\ UNCHANGED <<federation, syncside, client, search, teams, members,
                   nextId, clock>>


\* remove-member: SELECT role FROM team_members WHERE team_id = $1 AND
\* user_id = $2 (the requester): 403 when there is no row, 403 when the
\* requester is no owner and the target is another user
SelectRequester(r) ==
    /\ treq[r].pc = "rmember"
    /\ LET rows == {m \in members : m.team_id = treq[r].teamId
                                       /\ m.user_id = treq[r].user}
       IN treq' = [treq EXCEPT ![r] =
                      IF rows = {}
                      THEN [@ EXCEPT !.pc = "done", !.status = 403]
                      ELSE IF (\E m \in rows : m.role # "owner")
                                 /\ treq[r].user # treq[r].target
                      THEN [@ EXCEPT !.pc = "done", !.status = 403]
                      ELSE [@ EXCEPT !.pc = "rtarget"]]
    /\ UNCHANGED <<federation, syncside, client, search, teams, members,
                   nextId, failures, clock>>

\* mutant: the owner's row may be removed
TargetIsOwnerNever(rows) == FALSE

\* target.rows[0]?.role === 'owner'
TargetIsOwner(rows) == \E m \in rows : m.role = "owner"

\* remove-member: SELECT role FROM team_members WHERE team_id = $1 AND
\* user_id = $2 (the target): 400 when it is the owner
SelectTarget(r) ==
    /\ treq[r].pc = "rtarget"
    /\ LET rows == {m \in members : m.team_id = treq[r].teamId
                                       /\ m.user_id = treq[r].target}
       IN treq' = [treq EXCEPT ![r] =
                      IF TargetIsOwner(rows)
                      THEN [@ EXCEPT !.pc = "done", !.status = 400]
                      ELSE [@ EXCEPT !.pc = "rdelete"]]
    /\ UNCHANGED <<federation, syncside, client, search, teams, members,
                   nextId, failures, clock>>

\* remove-member: DELETE FROM team_members WHERE team_id = $1 AND user_id =
\* $2; res.json({ removed: true })
DeleteMember(r) ==
    /\ treq[r].pc = "rdelete"
    /\ members' = {m \in members : ~(m.team_id = treq[r].teamId
                                        /\ m.user_id = treq[r].target)}
    /\ treq' = [treq EXCEPT ![r].pc = "done", ![r].status = 200]
    /\ UNCHANGED <<federation, syncside, client, search, teams, nextId,
                   failures, clock>>

\* A query of the remove-member route fails: nothing is written, the catch
\* answers 500.
RemoveQueryFails(r, budget) ==
    /\ treq[r].pc \in {"rmember", "rtarget", "rdelete"}
    /\ failures < budget
    /\ failures' = failures + 1
    /\ treq' = [treq EXCEPT ![r].pc = "done", ![r].status = 500]
    /\ UNCHANGED <<federation, syncside, client, search, teams, members,
                   nextId, clock>>

\* ------------------------------------------------------- specifications

SeqsUpTo(S, n) == UNION {[1..k -> S] : k \in 1..n}

BodiesOf(hashes, pats, n) ==
    {[contributorHash |-> h, patterns |-> b] : h \in hashes, b \in SeqsUpTo(pats, n)}

\* the store is empty and n requests are to come
InitOf(n) ==
    /\ patterns = {}
    /\ contributions = {}
    /\ nextId = 1
    /\ req = [r \in 1..n |-> Idle]
    /\ failures = 0
    /\ clock = 0
    /\ knowledge = {}
    /\ sessions = {}
    /\ sreq = << >>
    /\ client = NoClient
    /\ teams = {}
    /\ members = {}
    /\ treq = << >>
    /\ search = NoSearch

\* The main specification: requests of two contributors, each with one
\* pattern, run concurrently, interleaved between their queries, and queries
\* may fail.
Bodies == BodiesOf({"A", "B"}, {P1, P2, P3}, 1)

Init == InitOf(MaxRequests)

Next ==
    \/ \E r \in DOMAIN req : Begin(r, Bodies)
    \/ \E r \in DOMAIN req : SelectExisting(r)
    \/ \E r \in DOMAIN req : MergeLedger(r)
    \/ \E r \in DOMAIN req : MergeCount(r)
    \/ \E r \in DOMAIN req : MergeUpdate(r)
    \/ \E r \in DOMAIN req : InsertPattern(r)
    \/ \E r \in DOMAIN req : InsertLedger(r)
    \/ \E r \in DOMAIN req : MergeLedgerFails(r, MaxFailures)
    \/ \E r \in DOMAIN req : QueryFails(r, MaxFailures)

Spec == Init /\ [][Next]_vars

\* The sequential specification: one request at a time, no storage failure.
SeqBodies == BodiesOf(Hashes, {P1, P2, P3, P4}, 1)

NoneInFlight == \A q \in DOMAIN req : req[q].pc \in {"new", "done"}

BeginSeq(r) == NoneInFlight /\ Begin(r, SeqBodies)

SeqInit == InitOf(MaxSeqRequests)

SeqNext ==
    \/ \E r \in DOMAIN req : BeginSeq(r)
    \/ \E r \in DOMAIN req : SelectExisting(r)
    \/ \E r \in DOMAIN req : MergeLedger(r)
    \/ \E r \in DOMAIN req : MergeCount(r)
    \/ \E r \in DOMAIN req : MergeUpdate(r)
    \/ \E r \in DOMAIN req : InsertPattern(r)
    \/ \E r \in DOMAIN req : InsertLedger(r)

SeqSpec == SeqInit /\ [][SeqNext]_vars

\* The long-batch specification: one request with a batch of up to
\* MaxLongBatch patterns, or with a pattern that fails the schema; any query
\* may fail.
LongBodies ==
    {[contributorHash |-> "A", patterns |-> [k \in 1..n |-> P1]] : n \in 1..MaxLongBatch}
        \cup BodiesOf({"A"}, {P1, P4}, 2)

LongInit == InitOf(1)

LongNext ==
    \/ \E r \in DOMAIN req : Begin(r, LongBodies)
    \/ \E r \in DOMAIN req : SelectExisting(r)
    \/ \E r \in DOMAIN req : MergeLedger(r)
    \/ \E r \in DOMAIN req : MergeCount(r)
    \/ \E r \in DOMAIN req : MergeUpdate(r)
    \/ \E r \in DOMAIN req : InsertPattern(r)
    \/ \E r \in DOMAIN req : InsertLedger(r)
    \/ \E r \in DOMAIN req : MergeLedgerFails(r, MaxLongBatch)
    \/ \E r \in DOMAIN req : QueryFails(r, MaxLongBatch)

LongSpec == LongInit /\ [][LongNext]_vars


\* The request bodies of the sync and knowledge routes.
PushKnowledge(user, teamId, entries) ==
    [kind |-> "pushKnowledge", user |-> user, teamId |-> teamId,
     entries |-> entries, summaries |-> << >>, id |-> 0, updates |-> NoUpdates]

PushSessions(user, teamId, summaries) ==
    [kind |-> "pushSessions", user |-> user, teamId |-> teamId,
     entries |-> << >>, summaries |-> summaries, id |-> 0, updates |-> NoUpdates]

PostSession(user, teamId, summary) ==
    [kind |-> "postSession", user |-> user, teamId |-> teamId,
     entries |-> << >>, summaries |-> <<summary>>, id |-> 0, updates |-> NoUpdates]

CreateKnowledge(user, teamId, entry) ==
    [kind |-> "create", user |-> user, teamId |-> teamId,
     entries |-> <<entry>>, summaries |-> << >>, id |-> 0, updates |-> NoUpdates]

UpdateKnowledge(user, id, updates) ==
    [kind |-> "update", user |-> user, teamId |-> Undefined,
     entries |-> << >>, summaries |-> << >>, id |-> id, updates |-> updates]

DeleteKnowledge(user, id) ==
    [kind |-> "delete", user |-> user, teamId |-> Undefined,
     entries |-> << >>, summaries |-> << >>, id |-> id, updates |-> NoUpdates]

\* the stores are empty and n sync or knowledge requests are to come
SyncInitOf(n) ==
    /\ patterns = {}
    /\ contributions = {}
    /\ nextId = 1
    /\ req = << >>
    /\ failures = 0
    /\ clock = 0
    /\ knowledge = {}
    /\ sessions = {}
    /\ sreq = [r \in 1..n |-> SIdle]
    /\ client = NoClient
    /\ teams = {}
    /\ members = {}
    /\ treq = << >>
    /\ search = NoSearch

\* The sync specification: push requests of one user run concurrently,
\* interleaved between their queries, and queries may fail.
SyncBodies ==
    {PushKnowledge("u1", Undefined, es) : es \in {<<E1>>, <<E2, E1>>, <<E4, E1>>}}
        \cup {PushSessions("u1", Undefined, <<S1, S2>>)}

SyncInit == SyncInitOf(MaxSyncRequests)

SyncNext ==
    \/ \E r \in DOMAIN sreq : SBegin(r, SyncBodies)
    \/ \E r \in DOMAIN sreq : CheckLimit(r)
    \/ \E r \in DOMAIN sreq : SelectExistingEntry(r)
    \/ \E r \in DOMAIN sreq : UpdateTimestamp(r)
    \/ \E r \in DOMAIN sreq : InsertEntry(r)
    \/ \E r \in DOMAIN sreq : UpsertSummary(r)
    \/ \E r \in DOMAIN sreq : LogSync(r)
    \/ \E r \in DOMAIN sreq : SyncQueryFails(r, MaxFailures)

SyncSpec == SyncInit /\ [][SyncNext]_vars

\* The sequential sync specification: requests of two users, one at a time,
\* of the knowledge push, create, update and delete routes; no storage
\* failure.
SyncSeqBodies ==
    {PushKnowledge("u1", Undefined, <<E1>>),
     PushKnowledge("u1", Undefined, <<E2>>),
     PushKnowledge("u1", Team1, <<E2>>),
     PushKnowledge("u2", Team1, <<E4, E3>>),
     CreateKnowledge("u1", Undefined, E1),
     UpdateKnowledge("u1", 1, [NoUpdates EXCEPT !.summary = "Choose B"]),
     UpdateKnowledge("u2", 1, [NoUpdates EXCEPT !.details = "d3"]),
     UpdateKnowledge("u1", 1, NoUpdates),
     UpdateKnowledge("u1", 1, [NoUpdates EXCEPT !.tags = <<{"t9"}>>,
                                                !.relatedFiles = <<{"g"}>>]),
     DeleteKnowledge("u1", 1),
     DeleteKnowledge("u2", 1)}

NoneSyncInFlight == \A q \in DOMAIN sreq : sreq[q].pc \in {"new", "done"}

SBeginSeq(r) == NoneSyncInFlight /\ SBegin(r, SyncSeqBodies)

SyncSeqInit == SyncInitOf(MaxSyncSeqRequests)

SyncSeqNext ==
    \/ \E r \in DOMAIN sreq : SBeginSeq(r)
    \/ \E r \in DOMAIN sreq : CheckLimit(r)
    \/ \E r \in DOMAIN sreq : SelectExistingEntry(r)
    \/ \E r \in DOMAIN sreq : UpdateTimestamp(r)
    \/ \E r \in DOMAIN sreq : InsertEntry(r)
    \/ \E r \in DOMAIN sreq : LogSync(r)
    \/ \E r \in DOMAIN sreq : CreateEntry(r)
    \/ \E r \in DOMAIN sreq : PatchEntry(r)
    \/ \E r \in DOMAIN sreq : DeleteEntry(r)

SyncSeqSpec == SyncSeqInit /\ [][SyncSeqNext]_vars

\* The pull specification: one request at a time, no storage failure; u1
\* pushes the largest batch the schema takes, shared with the team, so that
\* the team has more records than a pull returns once u2 has pushed too.
Filler(n) ==
    [k \in 1..n |-> [E4 EXCEPT !.summary = ToString(k), !.timestamp = k]]

PullBodies ==
    {PushKnowledge("u1", Team1, Filler(PushKnowledgeMax)),
     PushKnowledge("u2", Team1, <<E1, E4>>),
     PushKnowledge("u2", Undefined, <<E2>>),
     UpdateKnowledge("u2", 1, [NoUpdates EXCEPT !.details = "d3"])}

SBeginPull(r) == NoneSyncInFlight /\ SBegin(r, PullBodies)

PullInit == SyncInitOf(MaxPullRequests)

PullNext ==
    \/ \E r \in DOMAIN sreq : SBeginPull(r)
    \/ \E r \in DOMAIN sreq : CheckLimit(r)
    \/ \E r \in DOMAIN sreq : SelectExistingEntry(r)
    \/ \E r \in DOMAIN sreq : UpdateTimestamp(r)
    \/ \E r \in DOMAIN sreq : InsertEntry(r)
    \/ \E r \in DOMAIN sreq : LogSync(r)
    \/ \E r \in DOMAIN sreq : PatchEntry(r)

PullSpec == PullInit /\ [][PullNext]_vars

\* The session specification: session summaries of two users, pushed through
\* POST /api/sessions and through the sync push, the requests running
\* concurrently.
SessionBodies ==
    {PushSessions("u1", Undefined, <<S1, S2>>),
     PushSessions("u1", Team1, <<S2, S1>>),
     PushSessions("u2", Undefined, <<S1>>),
     PostSession("u1", Undefined, S1),
     PostSession("u2", Team1, S2),
     PostSession("u2", Undefined, S3)}

SessionInit == SyncInitOf(MaxSessionRequests)

SessionNext ==
    \/ \E r \in DOMAIN sreq : SBegin(r, SessionBodies)
    \/ \E r \in DOMAIN sreq : UpsertSummary(r)
    \/ \E r \in DOMAIN sreq : LogSync(r)
    \/ \E r \in DOMAIN sreq : InsertSession(r)

SessionSpec == SessionInit /\ [][SessionNext]_vars

\* The search specification: a query, drawn from the strings of up to
\* MaxQueryLen characters, is put to the knowledge search and to the pattern
\* search once the stores hold a knowledge record and a visible pattern,
\* contributed by K_ANONYMITY_THRESHOLD callers.
QueryChars == {"a", " ", "\t", "."}
SearchQueries == {<< >>} \cup SeqsUpTo(QueryChars, MaxQueryLen)

PS == [P2 EXCEPT !.approach = <<"a", "a", " ", "c", "d">>]
ES == [E1 EXCEPT !.summary = "aa cd"]

SearchInit ==
    /\ patterns = {}
    /\ contributions = {}
    /\ nextId = 1
    /\ req = [r \in 1..K_ANONYMITY_THRESHOLD |-> Idle]
    /\ failures = 0
    /\ clock = 0
    /\ knowledge = {}
    /\ sessions = {}
    /\ sreq = <<SIdle>>
    /\ client = NoClient
    /\ teams = {}
    /\ members = {}
    /\ treq = << >>
    /\ search \in {[NoSearch EXCEPT !.q = q] : q \in SearchQueries}

\* the r-th caller contributes PS
SearchContribute(r) ==
    /\ NoneInFlight
    /\ Begin(r, {[contributorHash |-> ToString(r), patterns |-> <<PS>>]})

\* then u1 creates ES
SearchCreate(r) ==
    /\ \A c \in DOMAIN req : req[c].pc = "done"
    /\ SBegin(r, {CreateKnowledge("u1", Undefined, ES)})

AllAnswered ==
    /\ \A c \in DOMAIN req : req[c].pc = "done"
    /\ \A r \in DOMAIN sreq : sreq[r].pc = "done"

\* GET /api/knowledge/search?q=.. of u1; the answer is kept with the tsquery
\* the route has built
KnowledgeSearch ==
    /\ AllAnswered
    /\ search.knowledge = NotAsked
    /\ LET res == KnowledgeSearchRoute("u1", Undefined, search.q, Undefined, Undefined)
       IN search' = [search EXCEPT !.knowledge =
             [status |-> res.status, rows |-> res.entries, total |-> res.total,
              tsQuery |-> IF res.status = 200 THEN KnowledgeTsQuery(search.q)
                          ELSE << >>]]
    /\ UNCHANGED <<federation, teamside, syncside, client, nextId, failures, clock>>

\* GET /patterns/search?q=..; the answer is kept with the tsquery the route
\* has built
PatternSearch ==
    /\ AllAnswered
    /\ search.patterns = NotAsked
    /\ LET res == SearchPatterns(search.q, << >>, << >>, {})
       IN search' = [search EXCEPT !.patterns =
             [status |-> res.status, rows |-> res.patterns, total |-> res.total,
              tsQuery |-> IF res.status = 200 THEN TsQuery(search.q) ELSE << >>]]
    /\ UNCHANGED <<federation, teamside, syncside, client, nextId, failures, clock>>

SearchNext ==
    \/ \E r \in DOMAIN req : SearchContribute(r)
    \/ \E r \in DOMAIN req : SelectExisting(r)
    \/ \E r \in DOMAIN req : MergeLedger(r)
    \/ \E r \in DOMAIN req : MergeCount(r)
    \/ \E r \in DOMAIN req : MergeUpdate(r)
    \/ \E r \in DOMAIN req : InsertPattern(r)
    \/ \E r \in DOMAIN req : InsertLedger(r)
    \/ \E r \in DOMAIN sreq : SearchCreate(r)
    \/ \E r \in DOMAIN sreq : CheckLimit(r)
    \/ \E r \in DOMAIN sreq : CreateEntry(r)
    \/ KnowledgeSearch
    \/ PatternSearch

SearchSpec == SearchInit /\ [][SearchNext]_vars

\* The fingerprint specification: two callers contribute, one after the
\* other, a pattern of one category each, with approach texts drawn from the
\* strings of up to MaxTextLen characters.
TextAlphabet == {"a", "A", " ", "."}
Texts == SeqsUpTo(TextAlphabet, MaxTextLen)

FingerprintBodies(r) ==
    {[contributorHash |-> ToString(r), patterns |-> <<[P2 EXCEPT !.approach = t]>>] :
        t \in Texts}

FingerprintInit == InitOf(2)

FingerprintContribute(r) == NoneInFlight /\ Begin(r, FingerprintBodies(r))

FingerprintNext ==
    \/ \E r \in DOMAIN req : FingerprintContribute(r)
    \/ \E r \in DOMAIN req : SelectExisting(r)
    \/ \E r \in DOMAIN req : MergeLedger(r)
    \/ \E r \in DOMAIN req : MergeCount(r)
    \/ \E r \in DOMAIN req : MergeUpdate(r)
    \/ \E r \in DOMAIN req : InsertPattern(r)
    \/ \E r \in DOMAIN req : InsertLedger(r)

FingerprintSpec == FingerprintInit /\ [][FingerprintNext]_vars

\* The client specification: the pull specification and a client of u2 in
\* the team that pulls between requests, again and again.
ClientUser == "u2"
ClientTeam == Team1

\* the largest updated_at of a page (a page comes latest first)
LatestOf(entries) == entries[1].updated_at

\* One round of the client: GET /api/sync/pull/knowledge with its since,
\* then since moves to the largest updated_at received.  A pull that
\* returns nothing leaves the client as it is.
ClientPull ==
    /\ NoneSyncInFlight
    /\ LET entries == PullKnowledge(ClientUser, ClientTeam, client.since).entries
       IN /\ entries # << >>
          /\ client' = [since |-> <<LatestOf(entries)>>,
                        received |-> client.received
                            \cup {entries[k].id : k \in 1..Len(entries)}]
    /\ UNCHANGED <<federation, teamside, syncside, search, nextId, failures, clock>>

ClientNext ==
    \/ \E r \in DOMAIN sreq : SBeginPull(r)
    \/ \E r \in DOMAIN sreq : CheckLimit(r)
    \/ \E r \in DOMAIN sreq : SelectExistingEntry(r)
    \/ \E r \in DOMAIN sreq : UpdateTimestamp(r)
    \/ \E r \in DOMAIN sreq : InsertEntry(r)
    \/ \E r \in DOMAIN sreq : LogSync(r)
    \/ \E r \in DOMAIN sreq : PatchEntry(r)
    \/ ClientPull

ClientSpec == PullInit /\ [][ClientNext]_vars

\* The team specification: create-team and invite requests run concurrently,
\* interleaved between their statements, and statements may fail.
TeamInitOf(n) ==
    /\ patterns = {}
    /\ contributions = {}
    /\ nextId = 1
    /\ req = << >>
    /\ failures = 0
    /\ clock = 0
    /\ knowledge = {}
    /\ sessions = {}
    /\ sreq = << >>
    /\ client = NoClient
    /\ teams = {}
    /\ members = {}
    /\ treq = [r \in 1..n |-> TIdle]
    /\ search = NoSearch

TeamBodies ==
    {CreateTeam("u1", "n"), CreateTeam("u2", "n"), CreateTeam("u1", ""),
     Invite("u1", 1, "u2")}

TeamInit == TeamInitOf(MaxTeamRequests)

TeamNext ==
    \/ \E r \in DOMAIN treq : TBegin(r, TeamBodies)
    \/ \E r \in DOMAIN treq : TxBegin(r)
    \/ \E r \in DOMAIN treq : InsertTeam(r)
    \/ \E r \in DOMAIN treq : InsertOwner(r)
    \/ \E r \in DOMAIN treq : CommitTeam(r)
    \/ \E r \in DOMAIN treq : TeamQueryFails(r, MaxFailures)
    \/ \E r \in DOMAIN treq : SelectMembership(r)
    \/ \E r \in DOMAIN treq : SelectTeamOwner(r)
    \/ \E r \in DOMAIN treq : SelectOwnerTier(r)
    \/ \E r \in DOMAIN treq : CountMembers(r)
    \/ \E r \in DOMAIN treq : SelectInvited(r, Registered(MaxTeamRequests))
    \/ \E r \in DOMAIN treq : SelectAlreadyMember(r)
    \/ \E r \in DOMAIN treq : InsertMember(r)
    \/ \E r \in DOMAIN treq : InviteQueryFails(r, MaxFailures)

TeamSpec == TeamInit /\ [][TeamNext]_vars

\* The invite specification: a team is created and its owner invites one
\* registered user after the other; the requests arrive in order and a
\* request arrives while at most one earlier request is still in flight.
InviteBodies(r) ==
    IF r = 1 THEN {CreateTeam("u1", "n"), CreateTeam("u2", "n")}
    ELSE {Invite("u1", 1, UserId(r))}
            \cup (IF r = 2
                  THEN {Invite("u2", 1, UserId(r)), Invite("u1", 1, "nobody"),
                        Invite("u1", 1, "u1")}
                  ELSE {})

InOrder(r) ==
    \A q \in 1..(r - 1) :
        IF q = r - 1 THEN treq[q].pc # "new" ELSE treq[q].pc = "done"

InviteInit == TeamInitOf(MaxInviteRequests)

InviteNext ==
    \/ \E r \in DOMAIN treq : InOrder(r) /\ TBegin(r, InviteBodies(r))
    \/ \E r \in DOMAIN treq : TxBegin(r)
    \/ \E r \in DOMAIN treq : InsertTeam(r)
    \/ \E r \in DOMAIN treq : InsertOwner(r)
    \/ \E r \in DOMAIN treq : CommitTeam(r)
    \/ \E r \in DOMAIN treq : SelectMembership(r)
    \/ \E r \in DOMAIN treq : SelectTeamOwner(r)
    \/ \E r \in DOMAIN treq : SelectOwnerTier(r)
    \/ \E r \in DOMAIN treq : CountMembers(r)
    \/ \E r \in DOMAIN treq : SelectInvited(r, Registered(MaxInviteRequests))
    \/ \E r \in DOMAIN treq : SelectAlreadyMember(r)
    \/ \E r \in DOMAIN treq : InsertMember(r)

InviteSpec == InviteInit /\ [][InviteNext]_vars


\* The merge-race specification: a first contribute request runs alone, the
\* later requests, of three contributors for the same fingerprint, run
\* concurrently, interleaved between their queries; no query fails.
RaceBodies == BodiesOf(Hashes, {P1, P2}, 1)

BeginRace(r) == (r = 1 \/ req[1].pc = "done") /\ Begin(r, RaceBodies)

RaceInit == InitOf(MaxSeqRequests)

RaceNext ==
    \/ \E r \in DOMAIN req : BeginRace(r)
    \/ \E r \in DOMAIN req : SelectExisting(r)
    \/ \E r \in DOMAIN req : MergeLedger(r)
    \/ \E r \in DOMAIN req : MergeCount(r)
    \/ \E r \in DOMAIN req : MergeUpdate(r)
    \/ \E r \in DOMAIN req : InsertPattern(r)
    \/ \E r \in DOMAIN req : InsertLedger(r)

RaceSpec == RaceInit /\ [][RaceNext]_vars


\* The shared-records specification: the requests of the sequential sync
\* specification, in a store where u2 has created the team Team1 and is its
\* only member.
SharedInit ==
    /\ patterns = {}
    /\ contributions = {}
    /\ nextId = 1
    /\ req = << >>
    /\ failures = 0
    /\ clock = 0
    /\ knowledge = {}
    /\ sessions = {}
    /\ sreq = [r \in 1..MaxSyncSeqRequests |-> SIdle]
    /\ client = NoClient
    /\ teams = {[id |-> Team1, name |-> "n", owner_id |-> "u2"]}
    /\ members = {[team_id |-> Team1, user_id |-> "u2", role |-> "owner"]}
    /\ treq = << >>
    /\ search = NoSearch

SharedSpec == SharedInit /\ [][SyncSeqNext]_vars


\* The membership specification: in a store where u1 has created team 1 and
\* invited u2, create-team, invite and remove-member requests run
\* concurrently, interleaved between their statements, and statements may
\* fail.
MemberInit ==
    /\ patterns = {}
    /\ contributions = {}
    /\ nextId = 2
    /\ req = << >>
    /\ failures = 0
    /\ clock = 0
    /\ knowledge = {}
    /\ sessions = {}
    /\ sreq = << >>
    /\ client = NoClient
    /\ teams = {[id |-> 1, name |-> "n", owner_id |-> "u1"]}
    /\ members = {[team_id |-> 1, user_id |-> "u1", role |-> "owner"],
                  [team_id |-> 1, user_id |-> "u2", role |-> "member"]}
    /\ treq = [r \in 1..MaxTeamRequests |-> TIdle]
    /\ search = NoSearch

MemberBodies ==
    {CreateTeam("u2", "n"), Invite("u1", 1, "u3"), Invite("u2", 1, "u3"),
     Invite("u1", 1, "u1"),
     RemoveMember("u1", 1, "u2"), RemoveMember("u1", 1, "u1"),
     RemoveMember("u2", 1, "u2"), RemoveMember("u2", 1, "u1"),
     RemoveMember("u2", 1, "u3"), RemoveMember("u3", 1, "u2"),
     RemoveMember("u2", 2, "u2")}

MemberNext ==
    \/ \E r \in DOMAIN treq : TBegin(r, MemberBodies)
    \/ \E r \in DOMAIN treq : TxBegin(r)
    \/ \E r \in DOMAIN treq : InsertTeam(r)
    \/ \E r \in DOMAIN treq : InsertOwner(r)
    \/ \E r \in DOMAIN treq : CommitTeam(r)
    \/ \E r \in DOMAIN treq : TeamQueryFails(r, MaxFailures)
    \/ \E r \in DOMAIN treq : SelectMembership(r)
    \/ \E r \in DOMAIN treq : SelectTeamOwner(r)
    \/ \E r \in DOMAIN treq : SelectOwnerTier(r)
    \/ \E r \in DOMAIN treq : CountMembers(r)
    \/ \E r \in DOMAIN treq : SelectInvited(r, Registered(3))
    \/ \E r \in DOMAIN treq : SelectAlreadyMember(r)
    \/ \E r \in DOMAIN treq : InsertMember(r)
    \/ \E r \in DOMAIN treq : InviteQueryFails(r, MaxFailures)
    \/ \E r \in DOMAIN treq : SelectRequester(r)
    \/ \E r \in DOMAIN treq : SelectTarget(r)
    \/ \E r \in DOMAIN treq : DeleteMember(r)
    \/ \E r \in DOMAIN treq : RemoveQueryFails(r, MaxFailures)

MemberSpec == MemberInit /\ [][MemberNext]_vars


\* ------------------------------------------------------------ properties

\* search queries of the properties: "ab", "cd ab", "ca", "db"
Queries == {<<"a", "b">>, <<"c", "d", " ", "a", "b">>, <<"c", "a">>, <<"d", "b">>}

\* the pattern with this id is in the unfiltered list
Listed(id) ==
    LET res == ListPatterns(<< >>, << >>, {}, 0, 0)
    IN \E k \in 1..Len(res.patterns) : res.patterns[k].id = id

\* the pattern with this id is in the result of some search
Searched(id) ==
    \E q \in Queries :
        \E p \in SearchPatterns(q, << >>, << >>, {}).patterns : p.id = id

\* the fingerprint of the only pattern of a request's batch
FingerprintOf(rq) == dedupHash(rq.patterns[1].category, rq.patterns[1].approach)

\* request r has been answered 200
Served(r) == req[r].pc = "done" /\ req[r].status = 200

\* C1: when no contribute request is in flight, a pattern is returned by list
\* or search if and only if its ledger holds at least 3 distinct contributor
\* hashes.
C1_VisibleIffThreeContributors ==
    NoneInFlight =>
        \A row \in patterns :
            (Listed(row.id) \/ Searched(row.id))
                <=> Cardinality(LedgerOf(row.id)) >= K_ANONYMITY_THRESHOLD

\* C2: the stored contributor count of a pattern is at most the number of
\* distinct contributor hashes that submitted its fingerprint: the same
\* (fingerprint, contributorHash) pair counts once, however often submitted.
C2_PairCountsOnce ==
    NoneInFlight =>
        \A row \in patterns :
            row.contributor_count <=
                Cardinality({req[r].contributorHash :
                               r \in {x \in DOMAIN req :
                                        Served(x) /\ FingerprintOf(req[x]) = row.hash}})

\* C3: the step that merges a contribution into an existing pattern leaves
\* the stored contributor count equal to the number of distinct contributor
\* hashes of the pattern's ledger.
C3_MergeSyncsCount ==
    [][\A r \in DOMAIN req :
          (req[r].pc = "update" /\ req'[r].merged = req[r].merged + 1) =>
              \A row \in patterns' :
                  row.id = req[r].row.id =>
                      row.contributor_count =
                          Cardinality({c.contributor_hash :
                              c \in {x \in contributions' : x.pattern_id = row.id}})]_vars

\* C4: two requests with the same body, the first served on the empty store
\* and the second on a store that differs from it only in patterns below the
\* threshold, get the same response, and list and search show nothing in
\* both stores.
C4_BelowThresholdUnobservable ==
    (/\ Cardinality(DOMAIN req) >= 2
     /\ Served(1) /\ Served(2)
     /\ \A r \in DOMAIN req : r > 2 => req[r].pc = "new"
     /\ req[1].contributorHash = req[2].contributorHash
     /\ req[1].patterns = req[2].patterns
     /\ \A row \in patterns : ~Gate(row))
        => /\ Response(req[1]) = Response(req[2])
           /\ ListPatterns(<< >>, << >>, {}, 0, 0).total = 0
           /\ \A q \in Queries :
                 /\ SearchPatterns(q, << >>, << >>, {}).total = 0
                 /\ SearchPatterns(q, << >>, << >>, {}).patterns = {}

\* requests 1..n have been served, each with one pattern of the same
\* fingerprint, from the hashes hs[1], ..., hs[n] in this order, and no other
\* request has begun
Scenario(hs) ==
    /\ Len(hs) <= Cardinality(DOMAIN req)
    /\ \A r \in DOMAIN req :
          IF r <= Len(hs)
          THEN /\ Served(r)
               /\ req[r].contributorHash = hs[r]
               /\ Len(req[r].patterns) = 1
               /\ FingerprintOf(req[r]) = FingerprintOf(req[1])
               /\ r > 1 => req[r].patterns[1].id # req[r - 1].patterns[1].id
          ELSE req[r].pc = "new"

\* C5: from the empty store, the pattern contributed from A is accepted and
\* not listed; the same fingerprint from B is merged, stored with count 2
\* and not listed; from C it is merged and listed alone with count 3.
C5_ThreeContributorsScenario ==
    LET list == ListPatterns(<< >>, << >>, {}, 0, 0)
    IN /\ Scenario(<<"A">>) =>
            /\ Response(req[1]).accepted = 1
            /\ list.total = 0 /\ list.patterns = << >>
       /\ Scenario(<<"A", "B">>) =>
            /\ Response(req[2]).merged = 1 /\ Response(req[2]).accepted = 0
            /\ list.total = 0 /\ list.patterns = << >>
            /\ \A row \in patterns : row.contributor_count = 2
       /\ Scenario(<<"A", "B", "C">>) =>
            /\ Response(req[3]).merged = 1 /\ Response(req[3]).accepted = 0
            /\ list.total = 1 /\ Len(list.patterns) = 1
            /\ list.patterns[1].contributorCount = 3
            /\ \A row \in patterns : row.hash = FingerprintOf(req[1])

C5_Witness == Scenario(<<"A", "B", "C">>)


\* the messages of the errors of all requests
AllErrors == UNION {{req[r].errors[k] : k \in 1..Len(req[r].errors)} : r \in DOMAIN req}

\* C6: every stored effectiveness is in [0,1] (0..100 hundredths), and so is
\* every value a merge writes: no contribution is rejected by the CHECK on
\* effectiveness.
C6_EffectivenessInUnitInterval ==
    /\ \A row \in patterns :
          row.effectiveness >= EffMin /\ row.effectiveness <= EffMax
    /\ "check constraint" \notin AllErrors

\* a pattern that three merges have averaged to a value no request sent
C6_Witness ==
    \E row \in patterns :
        /\ row.contributor_count >= 3
        /\ row.effectiveness \notin {0, 90, 100}

\* the requests that are in the merge branch
Merging == {r \in DOMAIN req : req[r].pc \in {"ledger", "count", "update"}}

\* C7: the store holds at most one row per fingerprint; a request whose
\* lookup finds the fingerprint merges into that row, with any caller id and
\* contributor hash; a merge adds no row, and no two requests are counted
\* accepted for the same fingerprint.
C7_OneRowPerFingerprint ==
    /\ [](/\ \A a, b \in patterns : a.hash = b.hash => a = b
          /\ \A r \in Merging :
                \E row \in patterns :
                    /\ row.id = req[r].row.id
                    /\ row.hash = dedupHash(Current(req[r]).category,
                                            Current(req[r]).approach)
          /\ \A r1, r2 \in DOMAIN req :
                (/\ r1 # r2
                 /\ Served(r1) /\ req[r1].accepted = 1
                 /\ Served(r2) /\ req[r2].accepted = 1)
                    => FingerprintOf(req[r1]) # FingerprintOf(req[r2]))
    /\ [][\A r \in DOMAIN req :
            /\ (/\ req[r].pc = "select"
                /\ req'[r].pc \notin {"select", "done"}
                /\ \E row \in patterns :
                      row.hash = dedupHash(Current(req[r]).category,
                                           Current(req[r]).approach))
                   => req'[r].pc = "ledger"
            /\ req'[r].merged = req[r].merged + 1
                   => {row.hash : row \in patterns'} = {row.hash : row \in patterns}]_vars

\* two requests with different caller ids and contributor hashes have been
\* served on one fingerprint, one accepted and one merged into the same row
C7_Witness ==
    /\ Served(1) /\ Served(2)
    /\ req[1].contributorHash # req[2].contributorHash
    /\ req[1].patterns[1].id # req[2].patterns[1].id
    /\ FingerprintOf(req[1]) = FingerprintOf(req[2])
    /\ req[1].accepted + req[2].accepted = 1
    /\ req[1].merged + req[2].merged = 1
    /\ Cardinality(patterns) = 1

\* C8: when two requests from distinct contributors for the same fingerprint
\* have been served without a storage failure, one is counted accepted and
\* the other merged, none rejected, and the ledger of the pattern holds both
\* contributor hashes.
C8_RaceRetriedAsMerge ==
    (/\ Served(1) /\ Served(2)
     /\ failures = 0
     /\ req[1].contributorHash # req[2].contributorHash
     /\ FingerprintOf(req[1]) = FingerprintOf(req[2]))
        => /\ req[1].rejected = 0 /\ req[2].rejected = 0
           /\ req[1].accepted + req[2].accepted = 1
           /\ req[1].merged + req[2].merged = 1
           /\ \E row \in patterns :
                 /\ row.hash = FingerprintOf(req[1])
                 /\ LedgerOf(row.id) = {req[1].contributorHash, req[2].contributorHash}

\* C9: every pattern row whose insert branch is over has a ledger entry (so
\* a failed contribution has left no row without its first ledger entry).
C9_InsertAllOrNothing ==
    \A row \in patterns :
        (\A r \in DOMAIN req : ~(req[r].pc = "insledger" /\ req[r].row.id = row.id))
            => LedgerOf(row.id) # {}

\* the counters of a request add up to n
Counted(rq, n) == rq.accepted + rq.merged + rq.rejected = n

C11_NewFingerprintInserted ==
    [][\A r \in DOMAIN req :
          /\ (/\ req[r].pc = "select" /\ req'[r] # req[r]
              /\ SelectByHash(dedupHash(Current(req[r]).category,
                                        Current(req[r]).approach)) = {})
                 => /\ req'[r].pc = "insert"
                    /\ patterns' = patterns /\ contributions' = contributions
          /\ (req[r].pc = "insert" /\ req'[r] # req[r])
                 => /\ req'[r].pc = "insledger"
                    /\ contributions' = contributions
                    /\ req'[r].row \notin patterns
                    /\ patterns' = patterns \cup {req'[r].row}
                    /\ req'[r].row.hash = dedupHash(Current(req[r]).category,
                                                    Current(req[r]).approach)
                    /\ req'[r].row.contributor_count = 1
                    /\ req'[r].row.first_seen = req'[r].row.last_seen
                    /\ req'[r].row.first_seen = clock' /\ clock' > clock
          /\ (req[r].pc = "insledger" /\ req'[r] # req[r])
                 => /\ patterns' = patterns
                    /\ [pattern_id |-> req[r].row.id,
                        contributor_hash |-> req[r].contributorHash]
                           \notin contributions
                    /\ contributions' = contributions \cup
                          {[pattern_id |-> req[r].row.id,
                            contributor_hash |-> req[r].contributorHash]}
                    /\ req'[r].accepted = req[r].accepted + 1
                    /\ req'[r].merged = req[r].merged
                    /\ req'[r].rejected = req[r].rejected]_vars

\* a request has been served with its pattern accepted: the row of its
\* fingerprint has count 1, equal timestamps and the one ledger entry
C11_Witness ==
    \E r \in DOMAIN req :
        /\ Served(r) /\ req[r].accepted = 1
        /\ \E row \in patterns :
              /\ row.hash = FingerprintOf(req[r])
              /\ row.contributor_count = 1
              /\ row.first_seen = row.last_seen
              /\ LedgerOf(row.id) = {req[r].contributorHash}

\* the filters and the pages of the read requests of C12
ReadCategories == {<< >>, CatCA}
ReadPlatforms == {<< >>, <<"d", "d">>}
ReadTags == {{}, {"t2", "t3"}}
ReadLimits == {0, 1}
ReadOffsets == {0, 1}

\* the patterns with contributorCount >= 3 that match the filters
Wanted(category, platform, tags) ==
    {row \in patterns :
        /\ row.contributor_count >= K_ANONYMITY_THRESHOLD
        /\ category # << >> => row.category = category
        /\ platform # << >> => row.platform = platform
        /\ tags # {} => row.tags \cap tags # {}}

\* C12: for every list and every search request, the total is the number
\* of patterns with contributorCount >= 3 that match the filters (and, for
\* search, the text query), whatever limit and offset are, and every pattern
\* of the page has contributorCount >= 3.
C12_TotalCountsGatedMatches ==
    \A category \in ReadCategories, platform \in ReadPlatforms, tags \in ReadTags :
        /\ \A limit \in ReadLimits, offset \in ReadOffsets :
              LET list == ListPatterns(category, platform, tags, limit, offset)
              IN /\ list.total = Cardinality(Wanted(category, platform, tags))
                 /\ \A k \in 1..Len(list.patterns) :
                       list.patterns[k].contributorCount >= K_ANONYMITY_THRESHOLD
        /\ \A q \in Queries :
              /\ SearchPatterns(q, category, platform, tags).total =
                    Cardinality({row \in Wanted(category, platform, tags) :
                                    Matches(row, TsQuery(q))})
              /\ \A limit \in ReadLimits, offset \in ReadOffsets :
                    \A page \in SearchPages(q, category, platform, tags, limit, offset) :
                       \A p \in page : p.contributorCount >= K_ANONYMITY_THRESHOLD

\* request r is a knowledge push that repeats the push served just before it
Resubmitted(r) ==
    /\ r > 1
    /\ sreq[r].kind = "pushKnowledge" /\ sreq[r].pc # "new"
    /\ sreq[r - 1].kind = "pushKnowledge" /\ sreq[r - 1].status = 200
    /\ sreq[r].user = sreq[r - 1].user
    /\ sreq[r].teamId = sreq[r - 1].teamId
    /\ sreq[r].entries = sreq[r - 1].entries

\* the rows without their updated timestamps
Logical(rows) == {[row EXCEPT !.updated_at = 0] : row \in rows}

\* C13: a knowledge push that repeats the push served just before it inserts
\* nothing (inserted = 0, skipped = the length of the batch) and none of its
\* steps changes the rows or their logical timestamps (only updated_at
\* moves).
C13_MergeIdempotent ==
    /\ [](\A r \in DOMAIN sreq :
            (Resubmitted(r) /\ sreq[r].pc = "done")
                => /\ sreq[r].inserted = 0
                   /\ sreq[r].skipped = Len(sreq[r].entries))
    /\ [][\A r \in DOMAIN sreq :
            (Resubmitted(r) /\ sreq[r].pc # "done")
                => Logical(knowledge') = Logical(knowledge)]_vars

\* C14: no step lowers the logical timestamp of a knowledge record: a row
\* that is in the store before and after a step has a timestamp at least as
\* large after it.
C14_TimestampNeverDecreases ==
    [][\A before \in knowledge : \A after \in knowledge' :
          after.id = before.id => after.timestamp >= before.timestamp]_vars

\* a merge has met a record whose stored timestamp is later than the
\* incoming one, and the record has kept the later timestamp
C14_Witness ==
    \E r \in DOMAIN sreq :
        /\ sreq[r].kind = "pushKnowledge" /\ sreq[r].status = 200
        /\ sreq[r].skipped >= 1
        /\ \E k \in 1..Len(sreq[r].entries) : \E row \in knowledge :
              /\ SoftKeyMatch(row, sreq[r].user, sreq[r].entries[k])
              /\ row.timestamp > sreq[r].entries[k].timestamp

\* the rows of the owner with the soft key (type, project-or-null, summary)
\* of an entry
SameKey(rows, userId, entry) ==
    {row \in rows :
        /\ row.user_id = userId /\ row.type = entry.type
        /\ row.summary = entry.summary
        /\ row.project = IF entry.project \in {Undefined, ""} THEN Null
                          ELSE entry.project}

\* u1 has pushed E1 and then E2, on the empty store, and nothing else has
\* happened
PushedE1ThenE2 ==
    /\ sreq[1].kind = "pushKnowledge" /\ sreq[1].status = 200
    /\ sreq[1].user = "u1" /\ sreq[1].entries = <<E1>>
    /\ sreq[2].kind = "pushKnowledge" /\ sreq[2].status = 200
    /\ sreq[2].user = "u1" /\ sreq[2].entries = <<E2>>
    /\ sreq[3].pc = "new"

\* C15: with requests served one at a time, a knowledge merge takes its
\* entries in submission order; for each entry, if the owner has a record
\* with the same (type, project-or-null, summary), the timestamp of one such
\* record becomes max(existing, incoming), nothing else changes and the
\* entry counts as skipped; otherwise one record is inserted for it and it
\* counts as inserted; a served push has counted every entry.  Pushing E1
\* (timestamp 1) and then E2 (the same entry, timestamp 2) gives inserted =
\* 1, then skipped = 1 and a stored timestamp of 2.
C15_MergePerRecord ==
    /\ [](\A r \in DOMAIN sreq :
            (sreq[r].kind = "pushKnowledge" /\ sreq[r].status = 200)
                => sreq[r].inserted + sreq[r].skipped = Len(sreq[r].entries))
    /\ [](PushedE1ThenE2
              => /\ sreq[1].inserted = 1 /\ sreq[1].skipped = 0
                 /\ sreq[2].inserted = 0 /\ sreq[2].skipped = 1
                 /\ \E row \in knowledge :
                       /\ SameKey(knowledge, "u1", E1) = {row}
                       /\ row.timestamp = E1.timestamp + 1)
    /\ [][\A r \in DOMAIN sreq :
            LET rq == sreq[r]
                after == sreq'[r]
                entry == rq.entries[rq.i]
                own == SameKey(knowledge, rq.user, entry)
            IN /\ (rq.pc = "kselect" /\ after # rq)
                     => /\ knowledge' = knowledge
                        /\ IF own # {}
                           THEN /\ after.pc = "kupdate"
                                /\ after.existing \in {row.id : row \in own}
                           ELSE after.pc = "kinsert"
               /\ (rq.pc = "kupdate" /\ after # rq)
                     => /\ \E row \in own :
                              /\ row.id = rq.existing
                              /\ Logical(knowledge') = Logical(
                                    (knowledge \ {row}) \cup
                                    {[row EXCEPT !.timestamp =
                                         IF entry.timestamp > row.timestamp
                                         THEN entry.timestamp ELSE row.timestamp]})
                        /\ after.skipped = rq.skipped + 1
                        /\ after.inserted = rq.inserted
               /\ (rq.pc = "kinsert" /\ after # rq)
                     => /\ \E row \in knowledge' \ knowledge :
                              /\ knowledge' = knowledge \cup {row}
                              /\ SameKey({row}, rq.user, entry) = {row}
                              /\ row.timestamp = entry.timestamp
                        /\ after.inserted = rq.inserted + 1
                        /\ after.skipped = rq.skipped
               /\ (rq.pc \in {"kupdate", "kinsert"} /\ after # rq)
                     => IF rq.i < Len(rq.entries)
                        THEN after.pc = "kselect" /\ after.i = rq.i + 1
                        ELSE after.pc = "log"]_vars

\* E1 and then E2 have been pushed by u1 and the record holds timestamp 2
C15_Witness ==
    /\ PushedE1ThenE2
    /\ sreq[1].inserted = 1 /\ sreq[2].skipped = 1
    /\ \E row \in knowledge : row.timestamp = 2 /\ row.summary = "Fix A"

\* the soft key of an entry: (type, project-or-null, summary)
KeyOf(entry) ==
    <<entry.type,
      IF entry.project \in {Undefined, ""} THEN Null ELSE entry.project,
      entry.summary>>

\* C16: when two knowledge pushes of one owner have been served, the owner
\* has exactly one record for every soft key that occurs in both batches.
C16_ConcurrentMergeOneRow ==
    \A r1, r2 \in DOMAIN sreq :
        (/\ r1 # r2
         /\ sreq[r1].kind = "pushKnowledge" /\ sreq[r1].status = 200
         /\ sreq[r2].kind = "pushKnowledge" /\ sreq[r2].status = 200
         /\ sreq[r1].user = sreq[r2].user)
            => \A k1 \in 1..Len(sreq[r1].entries), k2 \in 1..Len(sreq[r2].entries) :
                  KeyOf(sreq[r1].entries[k1]) = KeyOf(sreq[r2].entries[k2])
                      => Cardinality(SameKey(knowledge, sreq[r1].user,
                                             sreq[r1].entries[k1])) = 1

\* the sum of the inserted counters of the requests 1..n
RECURSIVE InsertedUpTo(_)
InsertedUpTo(n) == IF n = 0 THEN 0 ELSE sreq[n].inserted + InsertedUpTo(n - 1)

\* C17: a failing query takes nothing back: the step of the failure leaves
\* the knowledge table as it is; a push that has been answered 500 after
\* processing some of its entries has left a record of the owner, with a
\* timestamp at least the entry's, for each of them; and every record and
\* session summary that a request has counted as inserted is in its table
\* (pushes only, nothing deletes).
C17_EarlierRecordsStay ==
    /\ [](/\ \A r \in DOMAIN sreq :
               (sreq[r].kind = "pushKnowledge" /\ sreq[r].status = 500)
                  => \A k \in 1..(sreq[r].inserted + sreq[r].skipped) :
                        \E row \in SameKey(knowledge, sreq[r].user, sreq[r].entries[k]) :
                            row.timestamp >= sreq[r].entries[k].timestamp
           /\ Cardinality(knowledge) + Cardinality(sessions) = InsertedUpTo(Len(sreq)))
    /\ [][failures' # failures => knowledge' = knowledge]_vars

\* a push of two entries has failed on the second: answered 500 with the
\* first entry inserted and its record in the table
C17_Witness ==
    \E r \in DOMAIN sreq :
        /\ sreq[r].kind = "pushKnowledge" /\ sreq[r].status = 500
        /\ sreq[r].i = 2 /\ sreq[r].inserted = 1 /\ sreq[r].skipped = 0
        /\ SameKey(knowledge, sreq[r].user, sreq[r].entries[1]) # {}

\* C18: when a query for one item of a knowledge or session push fails, the
\* request is not answered 500: it goes on to the next item of the batch, or
\* to its end when the item was the last, with the counters it had.
C18_FailedItemSkipped ==
    [][\A r \in DOMAIN sreq :
          (/\ failures' # failures
           /\ sreq'[r] # sreq[r]
           /\ sreq[r].pc \in {"kselect", "kupdate", "kinsert", "supsert"})
              => /\ sreq'[r].status # 500
                 /\ sreq'[r].inserted = sreq[r].inserted
                 /\ sreq'[r].skipped = sreq[r].skipped
                 /\ sreq'[r].updated = sreq[r].updated
                 /\ IF sreq[r].i < Len(sreq[r].entries) + Len(sreq[r].summaries)
                    THEN sreq'[r].i = sreq[r].i + 1
                    ELSE sreq'[r].pc = "log"]_vars

\* the records that belong to another owner than userId
OfOthers(rows, userId) == {row \in rows : row.user_id # userId}

\* the filters of the list requests of C19
ListProjects == {Undefined, "p"}
ListTypes == {Undefined, "solution"}

\* C19: no step of a merge, create, update or delete request of an owner
\* changes, adds or removes a record of another owner; a merge looks for the
\* soft key among the owner's own records only (it inserts when the owner has
\* none, whoever else has one, and updates a record of the owner otherwise);
\* and a list without team id returns records of the caller only.
C19_OwnersIsolated ==
    /\ [](\A user \in Users, project \in ListProjects, type \in ListTypes :
            LET list == ListKnowledgeEntries(user, Null, project, type, DefaultLimit, 0)
            IN \A k \in 1..Len(list.entries) : list.entries[k].user_id = user)
    /\ [][\A r \in DOMAIN sreq :
            /\ sreq'[r] # sreq[r]
                  => OfOthers(knowledge', sreq'[r].user) = OfOthers(knowledge, sreq'[r].user)
            /\ (sreq[r].pc = "kselect" /\ sreq'[r] # sreq[r])
                  => IF \E row \in knowledge :
                           /\ row.user_id = sreq[r].user
                           /\ KeyOf(row) = KeyOf(sreq[r].entries[sreq[r].i])
                     THEN /\ sreq'[r].pc = "kupdate"
                          /\ \E row \in knowledge :
                                row.id = sreq'[r].existing /\ row.user_id = sreq[r].user
                     ELSE sreq'[r].pc = "kinsert"
            /\ (sreq[r].pc \in {"kinsert", "kcreate"} /\ sreq'[r] # sreq[r])
                  => \A row \in knowledge' \ knowledge : row.user_id = sreq[r].user]_vars

\* two owners each have their record of one soft key, and an update or a
\* delete on a record of the other owner has been answered 404 with the
\* record still there
C19_Witness ==
    /\ \E a, b \in knowledge :
          a.user_id = "u1" /\ b.user_id = "u2" /\ KeyOf(a) = KeyOf(b)
    /\ \E r \in DOMAIN sreq : \E row \in knowledge :
          /\ sreq[r].kind \in {"update", "delete"} /\ sreq[r].status = 404
          /\ row.id = sreq[r].id /\ row.user_id # sreq[r].user

\* the parameters of the pull requests of C20
PullTeams == {Undefined, Team1}
PullSinces == {<< >>, <<0>>, <<2>>}

\* the records a pull is to select: those of the caller, those of the team
\* when a team id is given, later than since when since is given
PullWanted(userId, teamId, since) ==
    {row \in knowledge :
        /\ row.user_id = userId \/ (teamId # Undefined /\ row.team_id = teamId)
        /\ since # << >> => row.updated_at > since[1]}

AllSyncDone == \A r \in DOMAIN sreq : sreq[r].pc = "done"

\* the client has received every record it can see
ClientComplete ==
    \A row \in PullWanted(ClientUser, ClientTeam, << >>) :
        row.id \in client.received

\* the client's next pull brings nothing: from here on, with pushes
\* stopped, every pull of the client brings nothing
ClientDrained ==
    PullKnowledge(ClientUser, ClientTeam, client.since).entries = << >>

\* C21: a client that pulls with since at the largest updated_at it has
\* received comes to hold every record visible to it once pushes have
\* stopped: when its pulls bring nothing more, it has them all.
C21_IncrementalPullComplete ==
    (AllSyncDone /\ ClientDrained) => ClientComplete

\* the caller owns the record with this id
Owns(userId, id) ==
    \E row \in knowledge : row.id = id /\ row.user_id = userId

\* the record with this id exists and is another owner's
Foreign(userId, id) ==
    \E row \in knowledge : row.id = id /\ row.user_id # userId

\* C22: get, update and delete of a record of another owner answer as for
\* an id that no record has (nextId is such an id): get finds nothing,
\* update and delete are answered 404, and the store stays as it is.
C22_ForeignAsMissing ==
    /\ [](\A user \in Users, id \in 1..nextId :
            ~Owns(user, id) =>
                GetKnowledgeEntry(id, user) = GetKnowledgeEntry(nextId, user))
    /\ [][\A r \in DOMAIN sreq :
            (/\ sreq'[r].kind \in {"update", "delete"}
             /\ sreq[r].pc # "done" /\ sreq'[r].pc = "done"
             /\ sreq'[r].status # 400
             /\ ~Owns(sreq'[r].user, sreq'[r].id))
                => sreq'[r].status = 404 /\ knowledge' = knowledge]_vars

\* u2 has asked to update or delete the record of u1, has been answered 404,
\* and the record is there for u1 and not for u2
C22_Witness ==
    /\ \E r \in DOMAIN sreq :
          /\ sreq[r].kind \in {"update", "delete"} /\ sreq[r].pc = "done"
          /\ sreq[r].user = "u2" /\ sreq[r].status = 404
          /\ Foreign("u2", sreq[r].id)
    /\ GetKnowledgeEntry(1, "u1").status = 200
    /\ GetKnowledgeEntry(1, "u2").status = 404

\* C23 as claimed: an update is answered 'applied' exactly when the record
\* exists and is the caller's, whatever the fields of the update.
C23_UpdateAppliedIffOwned ==
    [][\A r \in DOMAIN sreq :
          (/\ sreq'[r].kind = "update" /\ sreq[r].pc # "done"
           /\ sreq'[r].pc = "done" /\ sreq'[r].status # 400)
              => (sreq'[r].status = 200 <=> Owns(sreq'[r].user, sreq'[r].id))]_vars

\* C23: an update is answered 'applied' exactly when the record exists, is
\* the caller's and the update has a field; then the record has the given
\* fields and a new updated_at, otherwise the store stays as it is.
C23_UpdateAppliedIffOwnedAndFields ==
    [][\A r \in DOMAIN sreq :
          (/\ sreq'[r].kind = "update" /\ sreq[r].pc # "done"
           /\ sreq'[r].pc = "done" /\ sreq'[r].status # 400)
              => LET rq == sreq'[r]
                     applied == Owns(rq.user, rq.id) /\ rq.updates # NoUpdates
                 IN /\ rq.status = 200 <=> applied
                    /\ rq.status = 404 <=> ~applied
                    /\ ~applied => knowledge' = knowledge
                    /\ applied =>
                          \E row \in knowledge :
                              /\ row.id = rq.id /\ row.user_id = rq.user
                              /\ knowledge' = (knowledge \ {row}) \cup
                                    {ApplyUpdates(row, rq.updates, clock')}
                              /\ clock' > row.updated_at]_vars

\* an owner's update without fields has been answered 404 with the record
\* in the store, and an owner's update with a field has been answered 200
C23_Witness ==
    /\ \E r \in DOMAIN sreq :
          /\ sreq[r].kind = "update" /\ sreq[r].pc = "done"
          /\ sreq[r].updates = NoUpdates /\ sreq[r].status = 404
          /\ Owns(sreq[r].user, sreq[r].id)
    /\ \E r \in DOMAIN sreq :
          /\ sreq[r].kind = "update" /\ sreq[r].pc = "done"
          /\ sreq[r].updates # NoUpdates /\ sreq[r].status = 200

\* the session summary rows of a user and a session id
SessionRows(rows, userId, sessionId) ==
    {row \in rows : row.user_id = userId /\ row.session_id = sessionId}

WordOfRun(q, i, j) ==
    LET kept == {k \in i..j : q[k] \in WordChars}
    IN [n \in 1..Cardinality(kept) |->
           q[CHOOSE k \in kept : Cardinality({m \in kept : m < k}) = n - 1]]

RunStarts(q) ==
    {i \in 1..Len(q) : q[i] \notin SpaceChars /\ (i = 1 \/ q[i - 1] \in SpaceChars)}

RunEnd(q, i) ==
    CHOOSE j \in i..Len(q) :
        /\ \A k \in i..j : q[k] \notin SpaceChars
        /\ j = Len(q) \/ q[j + 1] \in SpaceChars

LongRunStarts(q) ==
    {i \in RunStarts(q) : Len(WordOfRun(q, i, RunEnd(q, i))) >= 2}

WantedQuery(q) ==
    [n \in 1..Cardinality(LongRunStarts(q)) |->
        LET i == CHOOSE i \in LongRunStarts(q) :
                     Cardinality({m \in LongRunStarts(q) : m < i}) = n - 1
        IN WordOfRun(q, i, RunEnd(q, i))]

\* the answer is the empty result: 200, nothing found, total 0
EmptyResult(answer) ==
    answer.status = 200 /\ answer.rows = {} /\ answer.total = 0

\* C26 as claimed: a query none of whose words has two word characters is
\* answered with the empty result by the knowledge search and by the
\* pattern search.
C26_EmptyQueryEmptyResult ==
    WantedQuery(search.q) = << >> =>
        /\ search.knowledge # NotAsked => EmptyResult(search.knowledge)
        /\ search.patterns # NotAsked => EmptyResult(search.patterns)

\* C26: a query none of whose words has two word characters is answered
\* with the empty result by the knowledge search when it has a character
\* and by the pattern search when it has two; shorter queries are answered
\* 400.
C26_EmptyQueryEmptyResultOr400 ==
    WantedQuery(search.q) = << >> =>
        /\ search.knowledge # NotAsked =>
              IF Len(search.q) >= 1 THEN EmptyResult(search.knowledge)
              ELSE search.knowledge.status = 400
        /\ search.patterns # NotAsked =>
              IF Len(search.q) >= 2 THEN EmptyResult(search.patterns)
              ELSE search.patterns.status = 400

\* the stores hold a record of u1 and a visible pattern, and the query
\* "a ." has been answered with the empty result by both routes
C26_Witness ==
    /\ search.q = <<"a", " ", ".">>
    /\ EmptyResult(search.knowledge)
    /\ EmptyResult(search.patterns)
    /\ \E row \in knowledge : row.user_id = "u1"
    /\ \E row \in patterns : row.contributor_count >= K_ANONYMITY_THRESHOLD

\* C28: the tsquery a route builds from a query has the words the query is
\* to give, in the knowledge search and in the pattern search.
C28_QueryWords ==
    /\ search.knowledge.status = 200 =>
          search.knowledge.tsQuery = WantedQuery(search.q)
    /\ search.patterns.status = 200 =>
          search.patterns.tsQuery = WantedQuery(search.q)

\* the query "a.a\ta" has been answered by both routes, each with the one
\* word "aa" ("a" is dropped), and both have found what the stores hold
C28_Witness ==
    /\ search.q = <<"a", ".", "a", "\t", "a">>
    /\ search.knowledge.status = 200
    /\ search.patterns.status = 200
    /\ search.knowledge.tsQuery = << <<"a", "a">> >>
    /\ search.patterns.tsQuery = << <<"a", "a">> >>
    /\ search.knowledge.total = 1
    /\ Cardinality(search.patterns.rows) = 1

\* the words of an approach text without its formatting: the punctuation
\* taken out, the letters in lower case, split at the runs of whitespace
PlainWords(t) ==
    LET kept == SelectSeq(t, LAMBDA c : c \notin PunctChars)
    IN SplitSpaces([k \in 1..Len(kept) |-> LowerChar(kept[k])], << >>)

\* two approach texts that differ in letter case, in runs of whitespace or
\* in punctuation characters only
SameButFormatting(a, b) == PlainWords(a) = PlainWords(b)

\* C27: two contributions of one category whose approach texts differ in
\* letter case, in runs of whitespace or in punctuation characters only have
\* one fingerprint, and the second is merged into the pattern of the first.
C27_FormattingSameFingerprint ==
    (\A r \in DOMAIN req : req[r].pc = "done" /\ req[r].status = 200) =>
        LET a == req[1].patterns[1]
            b == req[2].patterns[1]
        IN SameButFormatting(a.approach, b.approach) =>
              /\ dedupHash(a.category, a.approach) = dedupHash(b.category, b.approach)
              /\ Cardinality(patterns) = 1
              /\ req[2].merged = 1

\* C29: team creation is all-or-nothing: once a create-team request has
\* ended, the team row it wrote and the 'owner' membership row of its
\* creator are both there or neither is, a request answered 201 has both,
\* and at every moment the table holds a team exactly when it holds the
\* membership of its owner.
TeamRowsOf(rq) == {t \in teams : t.id = rq.teamId}

MemberRowsOf(rq) == {m \in members : m.team_id = rq.teamId}

C29_CreateTeamAllOrNothing ==
    /\ \A r \in DOMAIN treq :
          (treq[r].kind = "createTeam" /\ treq[r].pc = "done") =>
              /\ \/ TeamRowsOf(treq[r]) = {} /\ MemberRowsOf(treq[r]) = {}
                 \/ /\ TeamRowsOf(treq[r]) # {}
                    /\ \E m \in MemberRowsOf(treq[r]) :
                          m.user_id = treq[r].user /\ m.role = "owner"
              /\ treq[r].status = 201 => TeamRowsOf(treq[r]) # {}
    /\ \A t \in teams :
          \E m \in members :
              m.team_id = t.id /\ m.user_id = t.owner_id /\ m.role = "owner"
    /\ \A m \in members : \E t \in teams : t.id = m.team_id

\* a request failed at the membership insert and left no team row, and
\* another one was answered 201 with both rows
C29_Witness ==
    /\ \E r \in DOMAIN treq :
          /\ treq[r].kind = "createTeam" /\ treq[r].pc = "done"
          /\ treq[r].status = 500
          /\ treq[r].team # {} /\ treq[r].owner = {}
          /\ TeamRowsOf(treq[r]) = {}
    /\ \E r \in DOMAIN treq :
          /\ treq[r].kind = "createTeam" /\ treq[r].status = 201
          /\ TeamRowsOf(treq[r]) # {} /\ MemberRowsOf(treq[r]) # {}

\* C30: an invite adds a member row to a team only if the requester is that
\* team's owner and the team's member count is below the team-member limit
\* of the owner's tier; a request answered 403 or 429 leaves the membership
\* table as it is.
InviteAdds(r) ==
    /\ treq[r].kind = "invite"
    /\ members' # members
    /\ treq'[r].pc = "done" /\ treq[r].pc # "done"

MemberCount(teamId) == Cardinality({m \in members : m.team_id = teamId})

IsOwner(userId, teamId) ==
    \E t \in teams : t.id = teamId /\ t.owner_id = userId

C30_InviteOnlyOwnerBelowLimit ==
    [][\A r \in DOMAIN treq :
          /\ InviteAdds(r) =>
                /\ IsOwner(treq[r].user, treq[r].teamId)
                /\ MemberCount(treq[r].teamId)
                      < TeamMemberLimit(TierOf(treq[r].user))
          /\ (treq[r].kind = "invite" /\ treq[r].pc # "done"
                /\ treq'[r].pc = "done" /\ treq'[r].status \in {403, 429})
                => members' = members]_vars

\* C31: a merge of a contribution with effectiveness e_in into a pattern
\* whose stored effectiveness and contributor count are e_old and c_old
\* stores min(1, (e_old * c_old + e_in) / (c_old + 1)) as the new
\* effectiveness.
MergeApplied(r) ==
    req[r].pc = "update" /\ req'[r].merged = req[r].merged + 1

\* the claim as stated: the stored value is exactly the clamped quotient
C31_MergeEffectivenessExact ==
    [][\A r \in DOMAIN req :
          MergeApplied(r) =>
              \A old \in patterns, new \in patterns' :
                  (old.id = req[r].row.id /\ new.id = old.id) =>
                      LET n == old.effectiveness * old.contributor_count
                                  + Current(req[r]).effectiveness
                          d == old.contributor_count + 1
                      IN IF n > EffMax * d
                         THEN new.effectiveness = EffMax
                         ELSE new.effectiveness * d = n]_vars

\* amended: the stored value is the clamped quotient of the values the merge
\* has read, rounded to the nearest hundredth (the column is NUMERIC(3,2))
C31_MergeEffectivenessRounded ==
    [][\A r \in DOMAIN req :
          MergeApplied(r) =>
              \A new \in patterns' :
                  new.id = req[r].row.id =>
                      LET n == req[r].row.effectiveness * req[r].row.contributor_count
                                  + Current(req[r]).effectiveness
                          d == req[r].row.contributor_count + 1
                          m == IF n > EffMax * d THEN EffMax * d ELSE n
                      IN /\ 2 * (new.effectiveness * d - m) <= d
                         /\ 2 * (m - new.effectiveness * d) <= d]_vars

\* two contributions of 1.00 and one of 0.90 have merged: 2.90 / 3 is stored
\* as 0.97
C31_Witness ==
    /\ \E row \in patterns : row.contributor_count = 3 /\ row.effectiveness = 97
    /\ \E r \in DOMAIN req : req[r].pc = "done" /\ req[r].merged = 1
                                /\ req[r].patterns[1].effectiveness = 90

\* C32: an applied update of a knowledge record replaces the supplied fields
\* among summary, details, tags and related files and no other, and
\* refreshes updated_at; the record's id, owner, team, type, project,
\* session id, logical timestamp and created timestamp, and every other
\* record, stay as they are.
UpdateApplied(r) ==
    /\ sreq'[r].kind = "update"
    /\ sreq[r].pc # "done" /\ sreq'[r].pc = "done"
    /\ sreq'[r].status = 200

SameButContent(old, new) ==
    /\ new.id = old.id /\ new.user_id = old.user_id /\ new.team_id = old.team_id
    /\ new.type = old.type /\ new.project = old.project
    /\ new.session_id = old.session_id /\ new.timestamp = old.timestamp
    /\ new.created_at = old.created_at

ContentOf(old, new, u) ==
    /\ new.summary = (IF u.summary = Undefined THEN old.summary ELSE u.summary)
    /\ new.details = (IF u.details = Undefined THEN old.details ELSE u.details)
    /\ new.tags = (IF Len(u.tags) = 0 THEN old.tags ELSE u.tags[1])
    /\ new.related_files =
          (IF Len(u.relatedFiles) = 0 THEN old.related_files ELSE u.relatedFiles[1])

C32_UpdateReplacesSuppliedOnly ==
    [][\A r \in DOMAIN sreq :
          UpdateApplied(r) =>
              /\ \A old \in knowledge :
                    IF old.id # sreq'[r].id THEN old \in knowledge'
                    ELSE \E new \in knowledge' :
                            /\ SameButContent(old, new)
                            /\ ContentOf(old, new, sreq'[r].updates)
                            /\ new.updated_at > old.updated_at
                            /\ new.updated_at = clock'
              /\ Cardinality(knowledge') = Cardinality(knowledge)]_vars

\* an update that gives tags and related files has been applied to a record
\* that keeps its summary and details, next to a record it has not touched
C32_Witness ==
    /\ \E r \in DOMAIN sreq :
          /\ sreq[r].kind = "update" /\ sreq[r].status = 200
          /\ sreq[r].updates.tags = <<{"t9"}>>
          /\ sreq[r].updates.summary = Undefined
          /\ \E row \in knowledge :
                /\ row.id = sreq[r].id /\ row.tags = {"t9"}
                /\ row.related_files = {"g"}
                /\ row.summary = "Fix A" /\ row.details = "d1"
                /\ row.updated_at > row.created_at
    /\ \E row \in knowledge : row.id # 1

\* C33: a pattern that list returns is returned by every later list with
\* the same filters: no step lowers a pattern's stored contributor count,
\* and no step takes a pattern that passes the gate and the filters out of
\* the rows that pass them.
ListCategories == {<< >>, CatCA}

ListTagSets == {{}, {"t1"}}

C33_ListedStaysListed ==
    [][\A old \in patterns :
          \E new \in patterns' :
              /\ new.id = old.id
              /\ new.contributor_count >= old.contributor_count
              /\ \A category \in ListCategories, tags \in ListTagSets :
                    (Gate(old) /\ Filters(old, category, << >>, tags))
                        => (Gate(new) /\ Filters(new, category, << >>, tags))]_vars

\* C34: when contribute requests of pairwise distinct contributors for one
\* existing fingerprint interleave, then after all of them have completed
\* the pattern's stored contributor count is the number of distinct
\* contributor hashes in its ledger.
AllDone == \A r \in DOMAIN req : req[r].pc = "done"

DistinctContributors ==
    \A q, r \in DOMAIN req : q # r => req[q].contributorHash # req[r].contributorHash

\* one request has inserted the pattern, every other has found it and merged
MergedIntoExisting ==
    /\ Cardinality(patterns) = 1
    /\ Cardinality({r \in DOMAIN req : req[r].accepted = 1}) = 1
    /\ \A r \in DOMAIN req : req[r].accepted = 1 \/ req[r].merged = 1

C34_InterleavedMergesCountLedger ==
    (AllDone /\ DistinctContributors /\ MergedIntoExisting) =>
        \A row \in patterns :
            row.contributor_count = Cardinality(LedgerOf(row.id))

\* C35: list and pull return a knowledge record that the caller does not own
\* only if the caller is a member of the team the record is shared with.
IsMember(userId, teamId) ==
    \E m \in members : m.team_id = teamId /\ m.user_id = userId

MayRead(userId, row) == row.user_id = userId \/ IsMember(userId, row.team_id)

C35_TeamRecordsToMembersOnly ==
    \A user \in Users, teamId \in PullTeams :
        LET list == ListKnowledgeEntries(user, OrNull(teamId), Undefined,
                                         Undefined, DefaultLimit, 0)
            pull == PullKnowledge(user, teamId, << >>)
        IN /\ \A k \in 1..Len(list.entries) : MayRead(user, list.entries[k])
           /\ \A k \in 1..Len(pull.entries) : MayRead(user, pull.entries[k])

\* C36: after any sequence of sync merges, direct creates, updates and
\* deletes the store holds at most one knowledge record per owner and
\* (type, project-or-null, summary).
C36_OneRecordPerSoftKey ==
    \A a, b \in knowledge :
        (a.user_id = b.user_id /\ a.type = b.type /\ a.project = b.project
            /\ a.summary = b.summary) => a.id = b.id

\* C37: a knowledge merge that finds a record with the incoming soft key
\* changes that record's logical timestamp and updated timestamp only: its
\* details, tags, related files, session id and team id (and every other
\* field) keep their stored values, and no other record changes.
MergeFound(r) ==
    /\ sreq[r].kind = "pushKnowledge" /\ sreq[r].pc = "kupdate"
    /\ sreq'[r] # sreq[r] /\ sreq'[r].status # 500

C37_MergeKeepsStoredContent ==
    [][\A r \in DOMAIN sreq :
          MergeFound(r) =>
              /\ Cardinality(knowledge') = Cardinality(knowledge)
              /\ \A old \in knowledge :
                    IF old.id # sreq[r].existing THEN old \in knowledge'
                    ELSE \E new \in knowledge' :
                            /\ SameButContent([old EXCEPT !.timestamp = new.timestamp], new)
                            /\ new.summary = old.summary
                            /\ new.details = old.details
                            /\ new.tags = old.tags
                            /\ new.related_files = old.related_files
                            /\ new.timestamp >= old.timestamp
                            /\ new.updated_at = clock']_vars

\* a push with other details, tags, related files, session id and team id
\* than the stored record of its soft key has been merged into that record
C37_Witness ==
    \E r \in DOMAIN sreq : \E row \in knowledge :
        /\ sreq[r].kind = "pushKnowledge" /\ sreq[r].pc = "done"
        /\ sreq[r].skipped = 1 /\ sreq[r].teamId = Team1
        /\ sreq[r].entries[1] = E2
        /\ row.user_id = sreq[r].user /\ row.summary = E2.summary
        /\ row.details = E1.details /\ row.tags = E1.tags
        /\ row.session_id = Null /\ row.team_id = Null
        /\ row.timestamp = E2.timestamp /\ row.updated_at > row.created_at

\* C38: a push that replaces a session summary changes its payload and
\* project label only: created_at and team_id keep the values of the first
\* insert, and a session pull with since later than the row's creation does
\* not return the replaced summary.
Replaces(r) ==
    /\ sreq[r].pc \in {"supsert", "sinsert"}
    /\ sreq'[r] # sreq[r]
    /\ \E old \in sessions :
          /\ old.user_id = sreq[r].user
          /\ old.session_id = sreq[r].summaries[IF sreq[r].pc = "sinsert" THEN 1
                                                ELSE sreq[r].i].sessionId

Returned(answer) == {answer.summaries[k] : k \in 1..Len(answer.summaries)}

C38_ReplacedKeepsCreation ==
    [][\A r \in DOMAIN sreq :
          Replaces(r) =>
              LET s == sreq[r].summaries[IF sreq[r].pc = "sinsert" THEN 1
                                         ELSE sreq[r].i]
              IN \A old \in sessions :
                    (old.user_id = sreq[r].user /\ old.session_id = s.sessionId) =>
                        \E new \in sessions' :
                            /\ new.id = old.id
                            /\ new.summary = s.summary
                            /\ new.created_at = old.created_at
                            /\ new.team_id = old.team_id
                            /\ \A n \in (old.created_at + 1)..clock' :
                               \A teamId \in PullTeams :
                                  new \notin Returned(PullSessionsOf(
                                      sessions', sreq[r].user, teamId, <<n>>))]_vars

\* a summary first stored without a team has been replaced by a push that
\* names a team: the row has the new payload, no team, and its first
\* created_at, earlier than now
C38_Witness ==
    \E r \in DOMAIN sreq : \E row \in sessions :
        /\ sreq[r].kind = "pushSessions" /\ sreq[r].pc = "done"
        /\ sreq[r].teamId = Team1 /\ sreq[r].updated >= 1
        /\ row.user_id = sreq[r].user /\ row.team_id = Null
        /\ row.summary = S1.summary
        /\ row.created_at < clock

\* C39: in every state each team has exactly one membership row with role
\* 'owner', that of the team's owner_id; an invite adds rows of role
\* 'member' only; a remove-member never deletes an owner's row, and a
\* requester who is not the team's owner removes their own row only.
OwnerRows(t) == {m \in members : m.team_id = t.id /\ m.role = "owner"}

StepOf(r, kind) ==
    treq[r].kind = kind /\ treq[r].pc # "done" /\ treq'[r] # treq[r]

C39_OneOwnerRowPerTeam ==
    /\ [](\A t \in teams :
            OwnerRows(t) = {[team_id |-> t.id, user_id |-> t.owner_id,
                             role |-> "owner"]})
    /\ [][\A r \in DOMAIN treq :
            /\ StepOf(r, "invite") =>
                  /\ members \subseteq members'
                  /\ \A m \in members' \ members : m.role = "member"
            /\ StepOf(r, "remove") =>
                  /\ members' \subseteq members
                  /\ \A m \in members \ members' :
                        /\ m.role # "owner"
                        /\ m.team_id = treq[r].teamId
                        /\ IsOwner(treq[r].user, m.team_id)
                              \/ m.user_id = treq[r].user]_vars

\* the removal of the owner has been refused with 400, a member's removal of
\* another user with 403, and a removal has been done: the team still has
\* the row of its owner
C39_Witness ==
    /\ \E r \in DOMAIN treq :
          treq[r].kind = "remove" /\ treq[r].status \in {400, 403}
             /\ treq[r].target = "u1"
    /\ \E r \in DOMAIN treq :
          /\ treq[r].kind = "remove" /\ treq[r].status = 200
          /\ ~IsMember(treq[r].target, treq[r].teamId)
    /\ IsMember("u1", 1)

====
